---- MODULE Spec2Model ----
(***************************************************************************)
(* Task lifecycle orchestrator of odm_tools (src/src/odm_tools).           *)
(*                                                                         *)
(* One process run = one ProcessingService.handle_request call: it builds  *)
(* an ODMProcessor, installs GracefulShutdown.request_shutdown as signal   *)
(* handler and runs ODMProcessor.process_request_with_options:             *)
(*   _create_tasks -> monitor_tasks -> process_completed_tasks,            *)
(* with _cancel_odm_tasks as the unwind.  The NodeODM node outlives the    *)
(* process, so the same request can be submitted again, any number of      *)
(* times, each time by a new process.                                      *)
(*                                                                         *)
(* Every action is one step of the main coroutine (a loop iteration, a     *)
(* call); the node and the signal handler interleave between actions, the  *)
(* scheduled shutdown() task only where the main coroutine has awaited     *)
(* since it last read the shutdown flag (yielded).  Calls to the node may  *)
(* raise NodeConnectionError / NodeResponseError; that outcome is drawn    *)
(* with \E.                                                                *)
(* The notifier's send_* calls return a bool and never raise               *)
(* (notifier.py, publish_status_update), so an emitted event is recorded   *)
(* and the orchestration goes on.                                          *)
(***************************************************************************)
EXTENDS Integers, Sequences, FiniteSets, TLC

\* the members of DataType (rgb, thermal): a request has at most one data-group
\* per member, named {request_id}_{member}
NumGroups == 2
\* settings.nodeodm.poll_retries as configured for the model
PollRetries == 2

Groups == 1..NumGroups

\* pyodm TaskStatus as used by processor.py
Status == {"QUEUED", "RUNNING", "COMPLETED", "FAILED", "CANCELED"}

VARIABLES
    node,                \* the node's job list: Seq of [name, status]; uuid = index
    pc,                  \* position of the main coroutine
    exc,                 \* exception in flight / raised by process_request_with_options
    exit_code,           \* handle_request's return value (-1: none yet)
    cancel_on_shutdown,  \* settings.nodeodm.cancel_on_shutdown
    datatype_groups,     \* the request's data-groups, in order
    existing_tasks,      \* _create_tasks: name -> uuid (0: not listed)
    odm_tasks,           \* the list of tasks built by _create_tasks
    tasks_bound,         \* "odm_tasks" in locals() of process_request_with_options
    active_tasks,        \* self.active_tasks (uuids tracked)
    idx,                 \* index of the running for-loop
    completed_count,     \* monitor_tasks
    total_retries,       \* monitor_tasks
    unwind_ret,          \* where _cancel_odm_tasks returns to
    shutdown_requested,  \* GracefulShutdown.shutdown_requested
    shutdown_pending,    \* shutdown() tasks created and not yet run
    shutdown_event,      \* ODMProcessor._shutdown_event
    completed_tasks,     \* process_completed_tasks
    failed_tasks,        \* process_completed_tasks
    yielded,             \* the main coroutine awaited since it last read the flag
    \* observations of the current run
    created,             \* uuids created by this run
    start_events,        \* `start` events emitted by this run
    cancel_calls,        \* uuid -> number of task.cancel() calls of this run (as node)
    seen_terminal,       \* uuids whose status fetch returned a terminal status
    rounds,              \* poll rounds started while all_failed (saturates)
    all_failed,          \* every poll status fetch so far raised
    flag_seen,           \* a checkpoint found the shutdown flag set
    create_raised,       \* an exception escaped _create_tasks
    unwound,             \* "none", or who ran the last finished unwind
    unwind_fetch_failed, \* a status fetch of an unwind raised
    events,              \* uuid -> the send_task_start / _end / _error calls of this
                         \* run for the job, in order (as node)
    last_event,          \* the latest send_task_* call of this run: <<uuid, kind>>
    monitor_exit,        \* why monitor_tasks returned: "counted", "budget", "both"
    handoff_log,         \* uuid -> what process_completed_tasks did with the job (as node)
    connect_failed,      \* notifier.connect() raised in __aenter__
    list_failed,         \* _get_existing_tasks raised in _create_tasks
    \* the task commands of the service (cleanup_tasks, list_tasks)
    tool_call,           \* the latest command: its arguments and the jobs it matched
    removed,             \* the uuids in the list clear_tasks returned
    remove_calls,        \* the uuids task.remove() was called on by that clear_tasks
    listed,              \* the uuids of the tasks list_tasks returned
    \* one call of AsyncRabbitMQNotifier.publish_status_update
    pub,
    \* a KeyCloakAuthenticator and the clock it reads
    auth,
    \* two ODMProcessor instances that run _create_tasks for the same request
    race,
    \* an AsyncRabbitMQNotifier and the broker connections it has opened
    conn

procVars == <<pc, exc, exit_code, existing_tasks, odm_tasks, tasks_bound, active_tasks,
              idx, completed_count, total_retries, unwind_ret, completed_tasks,
              failed_tasks, yielded>>
sigVars == <<shutdown_requested, shutdown_pending, shutdown_event>>
obsVars == <<created, start_events, cancel_calls, seen_terminal, rounds,
             all_failed, flag_seen, create_raised, unwound, unwind_fetch_failed>>
logVars == <<events, last_event, monitor_exit, handoff_log, connect_failed, list_failed>>
cfgVars == <<cancel_on_shutdown, datatype_groups>>
toolVars == <<tool_call, removed, remove_calls, listed>>
sideVars == <<toolVars, pub, auth, race, conn>>
vars == <<node, cfgVars, procVars, sigVars, obsVars, logVars, sideVars>>

\* ------------------------------------------------------------ pure helpers
\* TaskStatus.QUEUED / RUNNING: the test of _cancel_odm_tasks
IsLive(s) == s \in {"QUEUED", "RUNNING"}

IsTerminal(s) == s \in {"COMPLETED", "FAILED", "CANCELED"}

\* request.request_id of the request that is submitted, as the sequence of its
\* parts between "_" (the id "R1" has one part)
RequestId == <<"R1">>

\* DataType(datatype_id).name, for the members in the order of their declaration
DataTypeName(g) == IF g = 1 THEN "rgb" ELSE "thermal"

\* f"{request_id}_{DataType(datatype_id).name}", as the sequence of its parts
\* between "_"
TaskNameOf(rid, g) == Append(rid, DataTypeName(g))

\* task_name = f"{request.request_id}_{DataType(datatype_id).name}"
TaskName(g) == TaskNameOf(RequestId, g)

GetExistingTasksLiveOnly(jobs) ==
    [g \in Groups |->
        LET hits == {j \in 1..Len(jobs) : jobs[j].name = TaskName(g)
                                          /\ jobs[j].status \in {"QUEUED", "RUNNING"}}
        IN  IF hits = {} THEN 0 ELSE CHOOSE j \in hits : \A h \in hits : h <= j]

\* _get_existing_tasks: existing_tasks[task_info.name] = task, in list order
\* (the last listed job of a name wins); 0 stands for "not in the dict"
GetExistingTasks(jobs) ==
    [g \in Groups |->
        LET hits == {j \in 1..Len(jobs) : jobs[j].name = TaskName(g)}
        IN  IF hits = {} THEN 0 ELSE CHOOSE j \in hits : \A h \in hits : h <= j]

IsExistingAlwaysNew(g) == FALSE
\* `if task_name in existing_tasks`
IsExisting(g) == existing_tasks[g] # 0

\* `while completed_count < total_tasks and total_retries < poll_retries`
LoopContinues(c, n, r) == c < n /\ r < PollRetries

ExitCodeValidationAsSuccess(e) ==
    IF e \in {"none", "ValueError"} THEN 0
    ELSE IF e = "ProcessingCancelled" THEN 2 ELSE 1

ExitCodeCancelAsFailure(e) == IF e = "none" THEN 0 ELSE 1
\* the except clauses of handle_request
ExitCode(e) ==
    CASE e = "none" -> 0
      [] e = "ValueError" -> 1
      [] e = "ProcessingCancelled" -> 2
      [] OTHER -> 1

EmitsStartAlways(isNew) == 1
\* send_task_start is called on the creation branch only
EmitsStart(isNew) == IF isNew THEN 1 ELSE 0

ShutdownIsSetNever == FALSE
ShutdownIsSetOnlyAtCreate == shutdown_event /\ pc = "create"
\* `if self._shutdown_event.is_set():` of _create_tasks, monitor_tasks and
\* process_completed_tasks, and the wait for the event of _cancellable_sleep
ShutdownIsSet == shutdown_event

Sat(n, cap) == IF n < cap THEN n + 1 ELSE cap

\* the log of a job after a send_task_<e> call ("none": no call)
Emit(log, e) == IF e \in {"none", "update"} THEN log ELSE Append(log, e)

\* the latest call after a send_task_<e> call for job j ("none": no call)
LastSent(prev, j, e) == IF e = "none" THEN prev ELSE <<j, e>>

\* a job process_completed_tasks has not reached
NotHanded == [seen |-> "none", step |-> "none", tally |-> "none"]

\* the handlers are installed and handle_request has not returned
Running == {"check_node", "load", "aenter", "validate", "list", "create", "mon_top",
            "mon_task", "mon_sleep", "cancel", "handler", "handoff", "transfer",
            "aexit"}

ObsInit ==
    /\ created = {}
    /\ start_events = 0
    /\ cancel_calls = << >>
    /\ seen_terminal = {}
    /\ rounds = 0
    /\ all_failed = TRUE
    /\ flag_seen = FALSE
    /\ create_raised = FALSE
    /\ unwound = "none"
    /\ unwind_fetch_failed = FALSE
    /\ events = << >>
    /\ last_event = << >>
    /\ monitor_exit = "none"
    /\ handoff_log = << >>
    /\ connect_failed = FALSE
    /\ list_failed = FALSE

\* no task command was run
NoCall == [op |-> "none", request |-> << >>, statuses |-> << >>, dry_run |-> FALSE,
           matched |-> {}]

ToolVarsInit ==
    /\ tool_call = NoCall
    /\ removed = {}
    /\ remove_calls = {}
    /\ listed = {}

\* no publish_status_update is running
NoPublish == [pc |-> "idle", retry_count |-> 0, attempt |-> 0, tries |-> << >>,
              delays |-> << >>, result |-> "none", is_connected |-> FALSE]

\* KeyCloakAuthenticator.__init__: _token = None, _token_expires_at = None (0
\* stands for None); no call was made
NoAuth == [token |-> 0, expires_at |-> 0, refresh_token |-> FALSE, now |-> 0,
           issued |-> 0, op |-> "none", contacts |-> 0, returned |-> 0,
           raised |-> FALSE]

\* the processors of the race: the two instances of ODMProcessor
Instances == {1, 2}

\* no instance has started _create_tasks
NoRace == [pc |-> [i \in Instances |-> "list"],
           existing |-> [i \in Instances |-> [g \in Groups |-> 0]],
           idx |-> [i \in Instances |-> 1],
           tasks |-> [i \in Instances |-> << >>]]

\* AsyncRabbitMQNotifier.__init__: connection = None (0), channel = None,
\* _is_connected = False; the broker holds no connection of the notifier
NoConn == [ctx |-> "new", retry_count |-> 1, connection |-> 0, channel |-> FALSE,
           is_connected |-> FALSE, open |-> {}, opened |-> 0, attempt |-> -1,
           result |-> "none"]

\* the locals of a run that has not started
ProcLocalsInit ==
    /\ exc = "none"
    /\ exit_code = -1
    /\ existing_tasks = [g \in Groups |-> 0]
    /\ odm_tasks = << >>
    /\ tasks_bound = FALSE
    /\ idx = 0
    /\ completed_count = 0
    /\ total_retries = 0
    /\ unwind_ret = "none"
    /\ completed_tasks = 0
    /\ failed_tasks = 0
    /\ yielded = FALSE
    /\ shutdown_requested = FALSE
    /\ shutdown_pending = 0
    /\ shutdown_event = FALSE

\* ODMProcessor.__init__: self.active_tasks = {}
ProcInit ==
    /\ active_tasks = {}
    /\ ProcLocalsInit

Init ==
    /\ node = << >>
    /\ pc = "idle"
    /\ cancel_on_shutdown \in BOOLEAN
    /\ datatype_groups \in {[i \in 1..n |-> i] : n \in 0..NumGroups}
    /\ ProcInit
    /\ ObsInit
    /\ ToolVarsInit
    /\ pub = NoPublish
    /\ auth = NoAuth
    /\ race = NoRace
    /\ conn = NoConn


\* ------------------------------------------------- service.py: handle_request
\* A new process: ProcessingService(), then handle_request up to the installation
\* of the signal handlers.  v: the request directory is invalid (ValueError),
\* the call is a dry run, or processing goes on.
HandleRequest(v) ==
    /\ pc \in {"idle", "done", "exited"}
    /\ exc' = IF v = "invalid" THEN "ValueError" ELSE "none"
    /\ exit_code' = IF v = "invalid" THEN ExitCode("ValueError")
                    ELSE IF v = "dry_run" THEN 0 ELSE -1
    /\ pc' = IF v = "ok" THEN "check_node" ELSE "done"
    /\ existing_tasks' = [g \in Groups |-> 0]
    /\ odm_tasks' = << >>
    /\ tasks_bound' = FALSE
    /\ active_tasks' = {}
    /\ idx' = 0
    /\ completed_count' = 0
    /\ total_retries' = 0
    /\ unwind_ret' = "none"
    /\ completed_tasks' = 0
    /\ failed_tasks' = 0
    /\ shutdown_requested' = FALSE
    /\ shutdown_pending' = 0
    /\ shutdown_event' = FALSE
    /\ created' = {}
    /\ start_events' = 0
    /\ cancel_calls' = [j \in 1..Len(node) |-> 0]
    /\ seen_terminal' = {}
    /\ rounds' = 0
    /\ all_failed' = TRUE
    /\ flag_seen' = FALSE
    /\ create_raised' = FALSE
    /\ unwound' = "none"
    /\ unwind_fetch_failed' = FALSE
    /\ UNCHANGED <<node, cancel_on_shutdown, datatype_groups>>
    /\ yielded' = FALSE
    /\ events' = [j \in 1..Len(node) |-> << >>]
    /\ last_event' = << >>
    /\ monitor_exit' = "none"
    /\ handoff_log' = [j \in 1..Len(node) |-> NotHanded]
    /\ connect_failed' = FALSE
    /\ list_failed' = FALSE
    /\ UNCHANGED sideVars

\* check_node_availability: ProcessingError when the node does not answer
CheckNodeAvailability(ok) ==
    /\ pc = "check_node"
    /\ IF ok THEN pc' = "load" /\ exc' = exc
             ELSE pc' = "finish" /\ exc' = "ProcessingError"
    /\ UNCHANGED <<node, cfgVars, exit_code, existing_tasks, odm_tasks, tasks_bound,
                   active_tasks, idx, completed_count, total_retries, unwind_ret,
                   completed_tasks, failed_tasks, sigVars, obsVars>>
    /\ yielded' = yielded
    /\ UNCHANGED logVars
    /\ UNCHANGED sideVars

\* _load_request_metadata, before the notifier context is entered
LoadRequestMetadata(ok) ==
    /\ pc = "load"
    /\ IF ok THEN pc' = "aenter" /\ exc' = exc
             ELSE pc' = "finish" /\ exc' = "ProcessingError"
    /\ UNCHANGED <<node, cfgVars, exit_code, existing_tasks, odm_tasks, tasks_bound,
                   active_tasks, idx, completed_count, total_retries, unwind_ret,
                   completed_tasks, failed_tasks, sigVars, obsVars>>
    /\ yielded' = yielded
    /\ UNCHANGED logVars
    /\ UNCHANGED sideVars

\* `async with self.notifier`: __aenter__ awaits connect(), which re-raises
NotifierEnter(ok) ==
    /\ pc = "aenter"
    /\ IF ok THEN pc' = "validate" /\ exc' = exc
             ELSE pc' = "finish" /\ exc' = "Exception"
    /\ UNCHANGED <<node, cfgVars, exit_code, existing_tasks, odm_tasks, tasks_bound,
                   active_tasks, idx, completed_count, total_retries, unwind_ret,
                   completed_tasks, failed_tasks, sigVars, obsVars>>
    /\ yielded' = TRUE
    /\ connect_failed' = ~ok
    /\ UNCHANGED <<events, last_event, monitor_exit, handoff_log, list_failed>>
    /\ UNCHANGED sideVars

\* FileManager.validate_datatype_groups: the data-groups of the request, or an error
ValidateDatatypeGroups(ok) ==
    /\ pc = "validate"
    /\ IF ok THEN pc' = "list" /\ exc' = exc
             ELSE pc' = "handler" /\ exc' = "Exception"
    /\ UNCHANGED <<node, cfgVars, exit_code, existing_tasks, odm_tasks, tasks_bound,
                   active_tasks, idx, completed_count, total_retries, unwind_ret,
                   completed_tasks, failed_tasks, sigVars, obsVars>>
    /\ yielded' = yielded
    /\ UNCHANGED logVars
    /\ UNCHANGED sideVars

\* ------------------------------------------------ processor.py: _create_tasks
ListExistingEmptyOnError(ok) ==
    /\ pc = "list"
    /\ existing_tasks' = IF ok THEN GetExistingTasks(node) ELSE [g \in Groups |-> 0]
    /\ pc' = "create"
    /\ idx' = 1
    /\ list_failed' = ~ok
    /\ yielded' = (yielded \/ (ok /\ Len(node) > 0))
    /\ UNCHANGED <<node, cfgVars, exc, exit_code, odm_tasks, tasks_bound, active_tasks,
                   completed_count, total_retries, unwind_ret, completed_tasks,
                   failed_tasks, sigVars, obsVars, events, last_event, monitor_exit,
                   handoff_log, connect_failed>>
    /\ UNCHANGED sideVars

\* the listing of _create_tasks; a node error becomes ProcessingError
ListExisting(ok) ==
    /\ pc = "list"
    /\ IF ok
       THEN /\ existing_tasks' = GetExistingTasks(node)
            /\ pc' = "create"
            /\ idx' = 1
            /\ UNCHANGED <<exc, create_raised>>
       ELSE /\ exc' = "ProcessingError"
            /\ create_raised' = TRUE
            /\ pc' = "handler"
            /\ UNCHANGED <<existing_tasks, idx>>
    /\ UNCHANGED <<node, cfgVars, exit_code, odm_tasks, tasks_bound, active_tasks,
                   completed_count, total_retries, unwind_ret, completed_tasks,
                   failed_tasks, sigVars, created, start_events, cancel_calls,
                   seen_terminal, rounds, all_failed, flag_seen, unwound,
                   unwind_fetch_failed>>
    /\ yielded' = (yielded \/ (ok /\ Len(node) > 0))
    /\ list_failed' = ~ok
    /\ UNCHANGED <<events, last_event, monitor_exit, handoff_log, connect_failed>>
    /\ UNCHANGED sideVars

\* one iteration of `for datatype_id, _, images in datatype_groups`
CreateTask(ok) ==
    /\ pc = "create"
    /\ idx <= Len(datatype_groups)
    /\ LET g == datatype_groups[idx]
           new == Len(node) + 1
       IN  IF ShutdownIsSet
           THEN /\ exc' = "ProcessingCancelled"
                /\ pc' = "handler"
                /\ flag_seen' = TRUE
                /\ create_raised' = TRUE
                /\ UNCHANGED <<node, odm_tasks, active_tasks, idx, created, start_events,
                               cancel_calls, events, last_event, handoff_log>>
           ELSE IF IsExisting(g)
           THEN /\ odm_tasks' = Append(odm_tasks, existing_tasks[g])
                /\ active_tasks' = active_tasks \cup {existing_tasks[g]}
                /\ start_events' = start_events + EmitsStart(FALSE)
                /\ events' = [events EXCEPT ![existing_tasks[g]] =
                                 Emit(@, IF EmitsStart(FALSE) = 1 THEN "start" ELSE "none")]
                /\ last_event' = LastSent(last_event, existing_tasks[g],
                                          IF EmitsStart(FALSE) = 1 THEN "start" ELSE "none")
                /\ idx' = idx + 1
                /\ UNCHANGED <<node, pc, exc, created, flag_seen, create_raised,
                               cancel_calls, handoff_log>>
           ELSE IF ok
           THEN /\ node' = Append(node, [name |-> TaskName(g), status |-> "QUEUED"])
                /\ odm_tasks' = Append(odm_tasks, new)
                /\ active_tasks' = active_tasks \cup {new}
                /\ created' = created \cup {new}
                /\ cancel_calls' = Append(cancel_calls, 0)
                /\ start_events' = start_events + EmitsStart(TRUE)
                /\ events' = Append(events,
                                 Emit(<< >>, IF EmitsStart(TRUE) = 1 THEN "start" ELSE "none"))
                /\ last_event' = LastSent(last_event, new,
                                          IF EmitsStart(TRUE) = 1 THEN "start" ELSE "none")
                /\ handoff_log' = Append(handoff_log, NotHanded)
                /\ idx' = idx + 1
                /\ UNCHANGED <<pc, exc, flag_seen, create_raised>>
           ELSE /\ exc' = "ProcessingError"
                /\ pc' = "handler"
                /\ create_raised' = TRUE
                /\ UNCHANGED <<node, odm_tasks, active_tasks, idx, created, start_events,
                               flag_seen, cancel_calls, events, last_event, handoff_log>>
    /\ UNCHANGED <<cfgVars, exit_code, existing_tasks, tasks_bound, completed_count,
                   total_retries, unwind_ret, completed_tasks, failed_tasks, sigVars,
                   seen_terminal, rounds, all_failed, unwound,
                   unwind_fetch_failed>>
    /\ yielded' = (~shutdown_event /\ ~IsExisting(datatype_groups[idx]))
    /\ UNCHANGED <<monitor_exit, connect_failed, list_failed>>
    /\ UNCHANGED sideVars

\* `return odm_tasks`, the assignment in process_request_with_options and
\* `if not odm_tasks: raise ProcessingError("No tasks were created")`
CreateReturn ==
    /\ pc = "create"
    /\ idx > Len(datatype_groups)
    /\ tasks_bound' = TRUE
    /\ IF odm_tasks = << >>
       THEN pc' = "handler" /\ exc' = "ProcessingError"
       ELSE pc' = "mon_top" /\ exc' = exc
    /\ UNCHANGED <<node, cfgVars, exit_code, existing_tasks, odm_tasks, active_tasks, idx,
                   completed_count, total_retries, unwind_ret, completed_tasks,
                   failed_tasks, sigVars, obsVars>>
    /\ yielded' = yielded
    /\ UNCHANGED logVars
    /\ UNCHANGED sideVars


\* ------------------------------------------------ processor.py: monitor_tasks
CountAfterNever(c, s) == c
\* `completed_count += 1` on FAILED, COMPLETED and CANCELED
CountAfter(c, s) == IF IsTerminal(s) THEN c + 1 ELSE c

RetriesAfterFree(r) == r
RetriesAfterTwice(r) == r + 2
\* `total_retries += 1` in the except clause
RetriesAfter(r) == r + 1

PollEventNoneWhenQueued(s) ==
    CASE s = "RUNNING" -> "update"
      [] s = "CANCELED" -> "end"
      [] OTHER -> "none"
PollEventUpdateWhenCompleted(s) ==
    IF s = "CANCELED" THEN "end" ELSE IF s = "FAILED" THEN "none" ELSE "update"
PollEventErrorWhenFailed(s) ==
    IF s = "CANCELED" THEN "end"
    ELSE IF s = "FAILED" THEN "error"
    ELSE IF s = "COMPLETED" THEN "none" ELSE "update"
\* the notification of monitor_tasks for a fetched status: `update` for RUNNING,
\* nothing for FAILED and COMPLETED, `end` for CANCELED, `update` otherwise
PollEvent(s) ==
    CASE s = "RUNNING" -> "update"
      [] s = "FAILED" -> "none"
      [] s = "COMPLETED" -> "none"
      [] s = "CANCELED" -> "end"
      [] OTHER -> "update"

\* the call `await self._cancel_odm_tasks(tasks)` followed by a raise of
\* ProcessingCancelled (ret = "handler") or by a bare `raise` (ret = "aexit")
EnterUnwind(ret) ==
    /\ pc' = "cancel"
    /\ idx' = 1
    /\ unwind_ret' = ret

\* which half of the while test ended the loop
MonitorExit(c, n, r) ==
    IF c < n THEN "budget" ELSE IF r < PollRetries THEN "counted" ELSE "both"

MonitorReturnRaiseOnBudget(reason) == IF reason = "budget" THEN "handler" ELSE "handoff"
\* the while loop is the last statement of monitor_tasks: whatever ended it,
\* monitor_tasks returns and process_completed_tasks is called
MonitorReturn(reason) == "handoff"

\* monitor_tasks is left, by its return or by the unwind before its raise: its
\* locals completed_count and total_retries are not read again
LeaveMonitor ==
    /\ completed_count' = 0
    /\ total_retries' = 0

\* the while test and the shutdown check at the top of a round
MonitorTop ==
    /\ pc = "mon_top"
    /\ IF ~LoopContinues(completed_count, Len(odm_tasks), total_retries)
       THEN /\ pc' = MonitorReturn(MonitorExit(completed_count, Len(odm_tasks),
                                               total_retries))
            /\ idx' = 1
            /\ monitor_exit' = MonitorExit(completed_count, Len(odm_tasks), total_retries)
            /\ LeaveMonitor
            /\ UNCHANGED <<exc, unwind_ret, flag_seen, rounds>>
       ELSE IF ShutdownIsSet
       THEN /\ EnterUnwind("handler")
            /\ exc' = "ProcessingCancelled"
            /\ flag_seen' = TRUE
            /\ LeaveMonitor
            /\ UNCHANGED <<rounds, monitor_exit>>
       ELSE /\ pc' = "mon_task"
            /\ idx' = 1
            /\ rounds' = IF all_failed THEN Sat(rounds, PollRetries + 1) ELSE rounds
            /\ UNCHANGED <<exc, unwind_ret, flag_seen, monitor_exit, completed_count,
                           total_retries>>
    /\ UNCHANGED <<node, cfgVars, exit_code, existing_tasks, odm_tasks, tasks_bound,
                   active_tasks, completed_tasks, failed_tasks, sigVars, created,
                   start_events, cancel_calls, seen_terminal, all_failed, create_raised,
                   unwound, unwind_fetch_failed, events, last_event, handoff_log,
                   connect_failed, list_failed>>
    /\ yielded' = (yielded /\ ~LoopContinues(completed_count, Len(odm_tasks), total_retries))
    /\ UNCHANGED sideVars

\* one iteration of `for task in tasks` of a round: the shutdown check, the
\* status fetch (ok: it returns; otherwise it raises a node error) and the
\* branch on the status
MonitorTask(ok) ==
    /\ pc = "mon_task"
    /\ idx <= Len(odm_tasks)
    /\ LET j == odm_tasks[idx]
           s == node[j].status
       IN  IF ShutdownIsSet
           THEN /\ EnterUnwind("handler")
                /\ exc' = "ProcessingCancelled"
                /\ flag_seen' = TRUE
                /\ LeaveMonitor
                /\ UNCHANGED <<seen_terminal, all_failed, rounds, events, last_event>>
           ELSE /\ IF ok
                   THEN /\ events' = [events EXCEPT ![j] = Emit(@, PollEvent(s))]
                        /\ last_event' = LastSent(last_event, j, PollEvent(s))
                        /\ completed_count' = CountAfter(completed_count, s)
                        /\ seen_terminal' = IF IsTerminal(s) THEN seen_terminal \cup {j}
                                            ELSE seen_terminal
                        /\ all_failed' = FALSE
                        /\ rounds' = 0
                        /\ UNCHANGED total_retries
                   ELSE /\ total_retries' = RetriesAfter(total_retries)
                        /\ UNCHANGED <<completed_count, seen_terminal, all_failed, rounds,
                                       events, last_event>>
                /\ idx' = idx + 1
                /\ pc' = IF idx = Len(odm_tasks) THEN "mon_sleep" ELSE "mon_task"
                /\ UNCHANGED <<exc, unwind_ret, flag_seen>>
    /\ UNCHANGED <<node, cfgVars, exit_code, existing_tasks, odm_tasks, tasks_bound,
                   active_tasks, completed_tasks, failed_tasks, sigVars, created,
                   start_events, cancel_calls, create_raised, unwound,
                   unwind_fetch_failed, monitor_exit, handoff_log, connect_failed,
                   list_failed>>
    /\ yielded' = ~shutdown_event
    /\ UNCHANGED sideVars

\* _cancellable_sleep: the wait ends by the timeout, or by the shutdown event
MonitorSleep ==
    /\ pc = "mon_sleep"
    /\ IF ShutdownIsSet
       THEN /\ EnterUnwind("handler")
            /\ exc' = "ProcessingCancelled"
            /\ flag_seen' = TRUE
            /\ LeaveMonitor
       ELSE /\ pc' = "mon_top"
            /\ UNCHANGED <<idx, unwind_ret, exc, flag_seen, completed_count, total_retries>>
    /\ UNCHANGED <<node, cfgVars, exit_code, existing_tasks, odm_tasks, tasks_bound,
                   active_tasks, completed_tasks, failed_tasks, sigVars, created,
                   start_events, cancel_calls, seen_terminal, rounds, all_failed,
                   create_raised, unwound, unwind_fetch_failed, logVars>>
    /\ yielded' = TRUE
    /\ UNCHANGED sideVars

\* -------------------------------------------- processor.py: _cancel_odm_tasks
\* `if self._cancel_tasks_on_shutdown:` ... "Letting tasks run" ... return
LetTasksRun == cancel_on_shutdown

AfterCancelStopOnFailure(i, n, ok) == IF ok THEN i + 1 ELSE n + 1
\* `for task in tasks` of _cancel_odm_tasks: the next task follows, whether the
\* iteration fetched and cancelled (ok) or its exception was caught and logged
AfterCancel(i, n, ok) == i + 1

WhoUnwound == IF unwind_ret = "handler" THEN "monitor" ELSE "handler"

\* the early return, or the end of `for task in tasks`
CancelReturn ==
    /\ pc = "cancel"
    /\ LetTasksRun \/ idx > Len(odm_tasks)
    /\ pc' = unwind_ret
    /\ unwound' = WhoUnwound
    /\ UNCHANGED <<node, cfgVars, exc, exit_code, existing_tasks, odm_tasks, tasks_bound,
                   active_tasks, idx, completed_count, total_retries, unwind_ret,
                   completed_tasks, failed_tasks, sigVars, created, start_events,
                   cancel_calls, seen_terminal, rounds, all_failed, flag_seen,
                   create_raised, unwind_fetch_failed>>
    /\ yielded' = yielded
    /\ UNCHANGED logVars
    /\ UNCHANGED sideVars

\* one iteration of `for task in tasks`: the status fetch (fetched: it returns)
\* and, for a QUEUED or RUNNING job, task.cancel() (cancelled: the node cancels
\* the job and answers True; otherwise it answers False or raises) with
\* send_task_end after a cancel that succeeded
CancelTask(fetched, cancelled) ==
    /\ pc = "cancel"
    /\ ~LetTasksRun
    /\ idx <= Len(odm_tasks)
    /\ LET j == odm_tasks[idx]
       IN  IF ~fetched
           THEN /\ unwind_fetch_failed' = TRUE
                /\ UNCHANGED <<node, cancel_calls, events, last_event>>
           ELSE IF IsLive(node[j].status)
           THEN /\ cancel_calls' = [cancel_calls EXCEPT ![j] = @ + 1]
                /\ node' = IF cancelled THEN [node EXCEPT ![j].status = "CANCELED"]
                           ELSE node
                /\ events' = [events EXCEPT ![j] =
                                 Emit(@, IF cancelled /\ j \in active_tasks
                                         THEN "end" ELSE "none")]
                /\ last_event' = LastSent(last_event, j,
                                          IF cancelled /\ j \in active_tasks
                                          THEN "end" ELSE "none")
                /\ UNCHANGED unwind_fetch_failed
           ELSE UNCHANGED <<node, cancel_calls, unwind_fetch_failed, events, last_event>>
    /\ idx' = AfterCancel(idx, Len(odm_tasks),
                          fetched /\ (IsLive(node[odm_tasks[idx]].status) => cancelled))
    /\ UNCHANGED <<cfgVars, pc, exc, exit_code, existing_tasks, odm_tasks, tasks_bound,
                   active_tasks, completed_count, total_retries, unwind_ret,
                   completed_tasks, failed_tasks, sigVars, created, start_events,
                   seen_terminal, rounds, all_failed, flag_seen,
                   create_raised, unwound, monitor_exit, handoff_log, connect_failed,
                   list_failed>>
    /\ yielded' = TRUE
    /\ UNCHANGED sideVars

\* --------------------------- processor.py: process_request_with_options, except
\* `if "odm_tasks" in locals()`
HasTasks == tasks_bound

\* the two except clauses: unwind when odm_tasks is bound, then re-raise
Handler ==
    /\ pc = "handler"
    /\ IF HasTasks
       THEN EnterUnwind("aexit")
       ELSE pc' = "aexit" /\ UNCHANGED <<idx, unwind_ret>>
    /\ UNCHANGED <<node, cfgVars, exc, exit_code, existing_tasks, odm_tasks, tasks_bound,
                   active_tasks, completed_count, total_retries, completed_tasks,
                   failed_tasks, sigVars, obsVars>>
    /\ yielded' = yielded
    /\ UNCHANGED logVars
    /\ UNCHANGED sideVars

\* __aexit__: disconnect() swallows its errors; the exception, if any, goes on
\* to handle_request, which returns 0 or by the except clause that matches
NotifierExit ==
    /\ pc = "aexit"
    /\ pc' = "done"
    /\ exit_code' = ExitCode(exc)
    /\ UNCHANGED <<node, cfgVars, exc, existing_tasks, odm_tasks, tasks_bound,
                   active_tasks, idx, completed_count, total_retries, unwind_ret,
                   completed_tasks, failed_tasks, sigVars, obsVars>>
    /\ yielded' = TRUE
    /\ UNCHANGED logVars
    /\ UNCHANGED sideVars

\* handle_request: the except clause that matches an exception raised before
\* the notifier context was entered
Finish ==
    /\ pc = "finish"
    /\ exit_code' = ExitCode(exc)
    /\ pc' = "done"
    /\ UNCHANGED <<node, cfgVars, exc, existing_tasks, odm_tasks, tasks_bound,
                   active_tasks, idx, completed_count, total_retries, unwind_ret,
                   completed_tasks, failed_tasks, sigVars, obsVars>>
    /\ yielded' = yielded
    /\ UNCHANGED logVars
    /\ UNCHANGED sideVars


\* --------------------------------------- processor.py: process_completed_tasks
HandoffResults == {"ok", "fetch_fail", "download_fail", "missing", "upload_fail",
                   "upload_empty"}

RECURSIVE EmitAll(_, _)
\* the log of a job after the send_task_* calls es, in order
EmitAll(log, es) == IF es = << >> THEN log ELSE EmitAll(Emit(log, Head(es)), Tail(es))

HandoffStepCountsCanceled(s, res) ==
    IF res = "fetch_fail"
    THEN [seen |-> "unknown", step |-> "none", tally |-> "failed", evs |-> << >>]
    ELSE IF s = "COMPLETED"
    THEN IF res = "ok"
         THEN [seen |-> s, step |-> res, tally |-> "completed", evs |-> <<"end">>]
         ELSE [seen |-> s, step |-> res, tally |-> "failed", evs |-> <<"error">>]
    ELSE IF s \in {"FAILED", "CANCELED"}
    THEN [seen |-> s, step |-> "none", tally |-> "failed", evs |-> <<"error">>]
    ELSE [seen |-> s, step |-> "none", tally |-> "none", evs |-> << >>]

\* the body of the try block of process_completed_tasks with _process_results,
\* for a job whose status is s on the node: what was seen, how _process_results
\* ended ("raised": an exception escaped it), the counter incremented and the
\* events sent
HandoffStep(s, res) ==
    IF res = "fetch_fail"
    THEN [seen |-> "unknown", step |-> "none", tally |-> "failed", evs |-> << >>]
    ELSE IF s = "COMPLETED"
    THEN CASE res = "ok" ->
                [seen |-> s, step |-> res, tally |-> "completed", evs |-> <<"end">>]
           [] res \in {"download_fail", "missing"} ->
                [seen |-> s, step |-> "raised", tally |-> "failed", evs |-> << >>]
           [] res = "upload_fail" ->
                [seen |-> s, step |-> res, tally |-> "failed", evs |-> <<"error", "error">>]
           [] OTHER ->
                [seen |-> s, step |-> res, tally |-> "failed", evs |-> <<"error">>]
    ELSE IF s = "FAILED"
    THEN [seen |-> s, step |-> "none", tally |-> "failed", evs |-> <<"error">>]
    ELSE [seen |-> s, step |-> "none", tally |-> "none", evs |-> << >>]

AfterHandoffStopOnFailure(i, n, t) == IF t = "failed" THEN n + 1 ELSE i + 1
\* the index of the for loop after the iteration i of n that tallied t: the
\* except clause swallows every exception, so the next job follows
AfterHandoff(i, n, t) == i + 1

\* one iteration of `for task in tasks` up to the first await of
\* _process_results: the shutdown check and the status fetch; for a job fetched
\* as COMPLETED the download of _process_results is started (pc = "transfer"),
\* for any other job the iteration ends here.  res: the status fetch raises, or
\* it returns.
Handoff(res) ==
    /\ pc = "handoff"
    /\ idx <= Len(odm_tasks)
    /\ LET j == odm_tasks[idx]
           h == HandoffStep(node[j].status, res)
       IN  IF ShutdownIsSet
           THEN /\ exc' = "ProcessingCancelled"
                /\ pc' = "handler"
                /\ flag_seen' = TRUE
                /\ UNCHANGED <<idx, completed_tasks, failed_tasks, events, last_event,
                               handoff_log>>
           ELSE IF res # "fetch_fail" /\ node[j].status = "COMPLETED"
           THEN /\ pc' = "transfer"
                /\ UNCHANGED <<exc, flag_seen, idx, completed_tasks, failed_tasks, events,
                               last_event, handoff_log>>
           ELSE /\ idx' = AfterHandoff(idx, Len(odm_tasks), h.tally)
                /\ completed_tasks' = completed_tasks + (IF h.tally = "completed" THEN 1 ELSE 0)
                /\ failed_tasks' = failed_tasks + (IF h.tally = "failed" THEN 1 ELSE 0)
                /\ events' = [events EXCEPT ![j] = EmitAll(@, h.evs)]
                /\ last_event' = IF h.evs = << >> THEN last_event
                                  ELSE <<j, h.evs[Len(h.evs)]>>
                /\ handoff_log' = [handoff_log EXCEPT ![j] =
                                      [seen |-> h.seen, step |-> h.step, tally |-> h.tally]]
                /\ UNCHANGED <<exc, pc, flag_seen>>
    /\ UNCHANGED <<node, cfgVars, exit_code, existing_tasks, odm_tasks, tasks_bound,
                   active_tasks, completed_count, total_retries, unwind_ret, sigVars,
                   created, start_events, cancel_calls, seen_terminal, rounds, all_failed,
                   create_raised, unwound, unwind_fetch_failed, monitor_exit,
                   connect_failed, list_failed>>
    /\ yielded' = ~shutdown_event
    /\ UNCHANGED sideVars

\* the rest of the iteration for a COMPLETED job: _process_results from the
\* download on and the tally.  res: everything works; the asset download
\* raises; no result file is found; the upload raises; the upload returns no
\* dataset.  The shutdown flag is not read here.
Transfer(res) ==
    /\ pc = "transfer"
    /\ res # "fetch_fail"
    /\ LET j == odm_tasks[idx]
           h == HandoffStep("COMPLETED", res)
       IN  /\ idx' = AfterHandoff(idx, Len(odm_tasks), h.tally)
           /\ completed_tasks' = completed_tasks + (IF h.tally = "completed" THEN 1 ELSE 0)
           /\ failed_tasks' = failed_tasks + (IF h.tally = "failed" THEN 1 ELSE 0)
           /\ events' = [events EXCEPT ![j] = EmitAll(@, h.evs)]
           /\ last_event' = IF h.evs = << >> THEN last_event
                             ELSE <<j, h.evs[Len(h.evs)]>>
           /\ handoff_log' = [handoff_log EXCEPT ![j] =
                                 [seen |-> h.seen, step |-> h.step, tally |-> h.tally]]
    /\ pc' = "handoff"
    /\ UNCHANGED <<node, cfgVars, exc, exit_code, existing_tasks, odm_tasks, tasks_bound,
                   active_tasks, completed_count, total_retries, unwind_ret, sigVars,
                   created, start_events, cancel_calls, seen_terminal, rounds, all_failed,
                   flag_seen, create_raised, unwound, unwind_fetch_failed, monitor_exit,
                   connect_failed, list_failed>>
    /\ yielded' = TRUE
    /\ UNCHANGED sideVars

\* `return completed_tasks, failed_tasks`; the try block of
\* process_request_with_options ends without an exception
HandoffReturn ==
    /\ pc = "handoff"
    /\ idx > Len(odm_tasks)
    /\ pc' = "aexit"
    /\ UNCHANGED <<node, cfgVars, exc, exit_code, existing_tasks, odm_tasks, tasks_bound,
                   active_tasks, idx, completed_count, total_retries, unwind_ret,
                   completed_tasks, failed_tasks, sigVars, obsVars>>
    /\ yielded' = yielded
    /\ UNCHANGED logVars
    /\ UNCHANGED sideVars

\* ------------------------------------------------ service.py: GracefulShutdown
RequestShutdownNoGuard ==
    /\ pc \in Running
    /\ shutdown_requested' = TRUE
    /\ shutdown_pending' = shutdown_pending + 1
    /\ shutdown_pending < 2
    /\ UNCHANGED <<node, cfgVars, procVars, shutdown_event, obsVars>>
    /\ UNCHANGED logVars
    /\ UNCHANGED sideVars

\* the state of a process that sys.exit ended: nothing of it is left, and
\* nothing more is observed of it
Exited ==
    /\ pc' = "exited"
    /\ exit_code' = 1
    /\ exc' = "none"
    /\ existing_tasks' = [g \in Groups |-> 0]
    /\ odm_tasks' = << >>
    /\ tasks_bound' = FALSE
    /\ active_tasks' = {}
    /\ idx' = 0
    /\ completed_count' = 0
    /\ total_retries' = 0
    /\ unwind_ret' = "none"
    /\ completed_tasks' = 0
    /\ failed_tasks' = 0
    /\ yielded' = FALSE
    /\ created' = {}
    /\ start_events' = 0
    /\ cancel_calls' = [j \in 1..Len(node) |-> 0]
    /\ seen_terminal' = {}
    /\ rounds' = 0
    /\ all_failed' = TRUE
    /\ flag_seen' = FALSE
    /\ create_raised' = FALSE
    /\ unwound' = "none"
    /\ unwind_fetch_failed' = FALSE
    /\ events' = [j \in 1..Len(node) |-> << >>]
    /\ last_event' = << >>
    /\ monitor_exit' = "none"
    /\ handoff_log' = [j \in 1..Len(node) |-> NotHanded]
    /\ connect_failed' = FALSE
    /\ list_failed' = FALSE

\* the signal handler: sys.exit(1) when a shutdown was already requested,
\* otherwise mark it and asyncio.create_task(self.processor.shutdown())
RequestShutdown ==
    /\ pc \in Running
    /\ IF shutdown_requested
       THEN /\ Exited
            /\ UNCHANGED <<shutdown_requested, shutdown_pending>>
       ELSE /\ shutdown_requested' = TRUE
            /\ shutdown_pending' = shutdown_pending + 1
            /\ UNCHANGED <<procVars, obsVars, logVars>>
    /\ UNCHANGED <<node, cfgVars, shutdown_event>>
    /\ UNCHANGED sideVars

RunningTasksTracksTransfer == IF pc = "transfer" THEN {"transfer"} ELSE {}
\* self._running_tasks: set() in __init__, filled by _track_task only, and
\* nothing calls _track_task
RunningTasks == {}

\* ODMProcessor.shutdown, run by the event loop while the main coroutine is
\* suspended in an await: sets the event, then cancels and gathers the tasks of
\* self._running_tasks (a cancelled operation raises CancelledError, which no
\* `except Exception` catches, into the coroutine that awaits it)
Shutdown ==
    /\ pc \in Running
    /\ yielded
    /\ shutdown_pending > 0
    /\ shutdown_event' = TRUE
    /\ shutdown_pending' = shutdown_pending - 1
    /\ IF RunningTasks = {}
       THEN UNCHANGED <<pc, exc>>
       ELSE pc' = "aexit" /\ exc' = "CancelledError"
    /\ UNCHANGED <<node, cfgVars, exit_code, existing_tasks, odm_tasks, tasks_bound,
                   active_tasks, idx, completed_count, total_retries, unwind_ret,
                   completed_tasks, failed_tasks, yielded, shutdown_requested, obsVars>>
    /\ UNCHANGED logVars
    /\ UNCHANGED sideVars

\* ------------------------------------------------------------------ the node
\* the node works on its jobs: QUEUED -> RUNNING -> COMPLETED or FAILED
NodeProgress(j, s) ==
    /\ pc \in Running
    /\ j \in 1..Len(node)
    /\ \/ node[j].status = "QUEUED" /\ s = "RUNNING"
       \/ node[j].status = "RUNNING" /\ s \in {"COMPLETED", "FAILED"}
    /\ node' = [node EXCEPT ![j].status = s]
    /\ UNCHANGED <<cfgVars, procVars, sigVars, obsVars>>
    /\ UNCHANGED logVars
    /\ UNCHANGED sideVars

\* ------------------------------------- the task commands: list and clear
\* the jobs of the node the commands are run against
MaxToolJobs == 2

\* the request ids of the jobs on the node, as their parts between "_": two ids
\* without "_" and the id "R1_x"
ToolRequests == {<<"R1">>, <<"R2">>, <<"R1", "x">>}

\* the `request` argument: << >> stands for None
RequestArgs == {<< >>, <<"R1">>, <<"R1", "x">>}

\* the `statuses` argument: << >> stands for None, <<S>> for the collection S
StatusArgs == {<< >>, <<{"COMPLETED"}>>, <<{"COMPLETED", "FAILED"}>>}

\* task.remove(): True, False, or an exception of the node client
RemoveOutcomes == {"ok", "refused", "raise"}

\* the node's task/list leaves out the jobs that were removed
IsListed(job) == job.status # "REMOVED"

\* `if statuses is not None: if task_info.status not in statuses: continue`
StatusPasses(st, s) == st = << >> \/ s \in st[1]

\* existing_tasks[task_info.name] = task: a dict keeps the position of the first
\* insertion of a key and the value of the last one
Put(d, name, j) ==
    IF \E k \in 1..Len(d) : d[k].name = name
    THEN [k \in 1..Len(d) |-> IF d[k].name = name THEN [name |-> name, uuid |-> j]
                                                  ELSE d[k]]
    ELSE Append(d, [name |-> name, uuid |-> j])

RECURSIVE ExistingFrom(_, _, _, _)
\* _get_existing_tasks(statuses): the loop over task/list from job j on
ExistingFrom(jobs, st, j, d) ==
    IF j > Len(jobs) THEN d
    ELSE ExistingFrom(jobs, st, j + 1,
                      IF IsListed(jobs[j]) /\ StatusPasses(st, jobs[j].status)
                      THEN Put(d, jobs[j].name, j) ELSE d)

\* task_name.split("_")[0] and task_name.split("_", 1)[0]
TaskRequest(name) == <<Head(name)>>

\* the test that skips a task: `request is not None and task_request != request.request_id`
\* in clear_tasks, `task_request != request.request_id` under `request_path is not None`
\* in list_tasks
IsSkipped(req, name) == req # << >> /\ TaskRequest(name) # req

\* the tasks the loop of a command does not skip, in the order of the dict
Selected(jobs, req, st) ==
    LET d == ExistingFrom(jobs, st, 1, << >>)
        kept == SelectSeq(d, LAMBDA e : ~IsSkipped(req, e.name))
    IN  [k \in 1..Len(kept) |-> kept[k].uuid]

CallsRemoveAlways(dry_run) == TRUE
\* `if dry_run: log.info(...) else: success = await asyncio.to_thread(task.remove)`
CallsRemove(dry_run) == ~dry_run

RECURSIVE ClearFrom(_, _, _, _)
\* the loop of clear_tasks over the selected tasks sel, with the outcome out[j] of
\* task.remove() on job j: the jobs remove was called on, the jobs the node
\* removed, the list `removed`, and whether an exception left the loop
ClearFrom(sel, dry_run, out, acc) ==
    IF sel = << >> THEN acc
    ELSE LET j == Head(sel)
         IN  IF ~CallsRemove(dry_run)
             THEN ClearFrom(Tail(sel), dry_run, out, acc)
             ELSE IF out[j] = "raise"
                  THEN [acc EXCEPT !.calls = @ \cup {j}, !.raised = TRUE]
                  ELSE IF out[j] = "ok"
                       THEN ClearFrom(Tail(sel), dry_run, out,
                                      [acc EXCEPT !.calls = @ \cup {j},
                                                  !.gone = @ \cup {j},
                                                  !.removed = @ \cup {j}])
                       ELSE ClearFrom(Tail(sel), dry_run, out,
                                      [acc EXCEPT !.calls = @ \cup {j}])

\* the outcomes of the calls of task.remove() a clear_tasks can make
RemoveResults(req, st, dry_run, avail) ==
    LET sel == Selected(node, req, st)
        js == {sel[k] : k \in 1..Len(sel)}
    IN  IF avail /\ ~dry_run THEN [js -> RemoveOutcomes] ELSE {[j \in js |-> "ok"]}

\* service.cleanup_tasks, the one command of a process: check_node_availability,
\* then processor.clear_tasks; (0, removed) or (1, [])
CleanupTasks(req, st, dry_run, avail) ==
    /\ pc = "idle"
    /\ \E out \in RemoveResults(req, st, dry_run, avail) :
        LET sel == IF avail THEN Selected(node, req, st) ELSE << >>
            r == ClearFrom(sel, dry_run, out,
                           [calls |-> {}, gone |-> {}, removed |-> {}, raised |-> FALSE])
        IN  /\ tool_call' = [op |-> "clear", request |-> req, statuses |-> st,
                             dry_run |-> dry_run,
                             matched |-> {sel[k] : k \in 1..Len(sel)}]
            /\ node' = [j \in 1..Len(node) |->
                          IF j \in r.gone THEN [node[j] EXCEPT !.status = "REMOVED"]
                          ELSE node[j]]
            /\ remove_calls' = r.calls
            /\ removed' = IF r.raised THEN {} ELSE r.removed
            /\ exc' = IF avail /\ ~r.raised THEN "none" ELSE "Exception"
            /\ exit_code' = IF avail /\ ~r.raised THEN 0 ELSE 1
    /\ pc' = "done"
    /\ listed' = {}
    /\ UNCHANGED <<cfgVars, existing_tasks, odm_tasks, tasks_bound, active_tasks, idx,
                   completed_count, total_retries, unwind_ret, completed_tasks,
                   failed_tasks, yielded, sigVars, obsVars, logVars, pub, auth, race, conn>>

\* service.list_tasks, the one command of a process: check_node_availability,
\* then processor.list_tasks; (0, task_infos) or (1, [])
ListTasks(req, st, avail) ==
    /\ pc = "idle"
    /\ LET sel == IF avail THEN Selected(node, req, st) ELSE << >>
       IN  /\ tool_call' = [op |-> "list", request |-> req, statuses |-> st,
                            dry_run |-> FALSE,
                            matched |-> {sel[k] : k \in 1..Len(sel)}]
           /\ listed' = {sel[k] : k \in 1..Len(sel)}
    /\ exc' = IF avail THEN "none" ELSE "Exception"
    /\ exit_code' = IF avail THEN 0 ELSE 1
    /\ pc' = "done"
    /\ removed' = {}
    /\ remove_calls' = {}
    /\ UNCHANGED <<node, cfgVars, existing_tasks, odm_tasks, tasks_bound, active_tasks,
                   idx, completed_count, total_retries, unwind_ret, completed_tasks,
                   failed_tasks, yielded, sigVars, obsVars, logVars, pub, auth, race, conn>>

\* a job of the node: a task of one of the requests, at work or finished
ToolJobs == [name : {TaskNameOf(rid, g) : rid \in ToolRequests, g \in Groups},
             status : {"RUNNING", "COMPLETED"}]

\* a node that holds jobs of several requests, and a service that is new or
\* whose registry holds the jobs of the request it handled before
ToolInit ==
    /\ node \in UNION {[1..n -> ToolJobs] : n \in 0..MaxToolJobs}
    /\ pc = "idle"
    /\ cancel_on_shutdown = TRUE
    /\ datatype_groups = << >>
    /\ active_tasks \in {{}, {j \in 1..Len(node) :
                                  \E g \in Groups : node[j].name = TaskName(g)}}
    /\ ProcLocalsInit
    /\ ObsInit
    /\ ToolVarsInit
    /\ pub = NoPublish
    /\ auth = NoAuth
    /\ race = NoRace
    /\ conn = NoConn

ToolNext ==
    \/ \E req \in RequestArgs, st \in StatusArgs, dry_run, avail \in BOOLEAN :
          CleanupTasks(req, st, dry_run, avail)
    \/ \E req \in RequestArgs, st \in StatusArgs, avail \in BOOLEAN :
          ListTasks(req, st, avail)

ToolSpec == ToolInit /\ [][ToolNext]_vars

\* ------------------------------------- notifier.py: publish_status_update
\* rmq.retry_count of the configurations that are tried
MaxRetryCount == 3

\* what one pass through the try block does: the message is published, connect()
\* raises, the channel is missing, or declare_exchange / publish raises
PublishOutcomes == {"ok", "connect_fail", "no_channel", "publish_fail"}

BackoffConstant(attempt) == 1
\* `await asyncio.sleep(1 * (attempt + 1))`
Backoff(attempt) == 1 * (attempt + 1)

\* one iteration of `for attempt in range(self.cfg.retry_count)`: the try block
\* and, when it raised, the except block with its sleep
PublishAttempt(o) ==
    /\ pub.pc = "attempt"
    /\ pub.attempt < pub.retry_count
    \* _ensure_connected calls connect() only when the sink is not connected
    /\ o = "connect_fail" => ~pub.is_connected
    /\ pub' = IF o = "ok"
              THEN [pub EXCEPT !.pc = "returned", !.result = "true",
                               !.tries = Append(@, o), !.is_connected = TRUE]
              ELSE IF pub.attempt < pub.retry_count - 1
                   THEN [pub EXCEPT !.attempt = @ + 1,
                                    !.tries = Append(@, o),
                                    !.delays = Append(@, Backoff(pub.attempt)),
                                    !.is_connected = FALSE]
                   ELSE [pub EXCEPT !.pc = "returned", !.result = "false",
                                    !.tries = Append(@, o),
                                    !.is_connected = (o # "connect_fail")]
    /\ UNCHANGED <<node, cfgVars, procVars, sigVars, obsVars, logVars, toolVars, auth, race, conn>>

\* the `return False` after the loop: range(retry_count) was empty
PublishNoAttempt ==
    /\ pub.pc = "attempt"
    /\ pub.attempt >= pub.retry_count
    /\ pub' = [pub EXCEPT !.pc = "returned", !.result = "false"]
    /\ UNCHANGED <<node, cfgVars, procVars, sigVars, obsVars, logVars, toolVars, auth, race, conn>>

\* a call of publish_status_update by a processor that tracks a job or none,
\* with any retry budget spent and the shutdown event set or not
PublishInit ==
    /\ node = <<[name |-> TaskName(1), status |-> "RUNNING"]>>
    /\ pc = "mon_task"
    /\ cancel_on_shutdown = TRUE
    /\ datatype_groups = <<1>>
    /\ active_tasks \in {{}, {1}}
    /\ exc = "none"
    /\ exit_code = -1
    /\ existing_tasks = [g \in Groups |-> 0]
    /\ odm_tasks = << >>
    /\ tasks_bound = FALSE
    /\ idx = 0
    /\ completed_count \in 0..1
    /\ total_retries \in 0..PollRetries
    /\ unwind_ret = "none"
    /\ completed_tasks = 0
    /\ failed_tasks = 0
    /\ yielded = TRUE
    /\ shutdown_requested = FALSE
    /\ shutdown_pending = 0
    /\ shutdown_event \in BOOLEAN
    /\ ObsInit
    /\ ToolVarsInit
    /\ auth = NoAuth
    /\ race = NoRace
    /\ conn = NoConn
    /\ \E n \in 0..MaxRetryCount, c \in BOOLEAN :
          pub = [NoPublish EXCEPT !.pc = "attempt", !.retry_count = n,
                                  !.is_connected = c]

PublishNext ==
    \/ \E o \in PublishOutcomes : PublishAttempt(o)
    \/ PublishNoAttempt

PublishSpec == PublishInit /\ [][PublishNext]_vars

\* -------------------------------------------- auth.py: KeyCloakAuthenticator
\* the clock, in seconds, up to which calls are made
MaxTime == 120

\* the tokens the identity server issues in one behaviour
MaxTokens == 3

\* `self._token_expires_at - 30`
ExpiryBuffer == 30

\* the expires_in of the tokens of the server, in seconds
ExpiresIn == {15, 60}

\* the time that passes between two calls
Ticks == {15, 30}

IsTokenExpiredAlways(a) == TRUE
\* _is_token_expired
IsTokenExpired(a) ==
    IF a.token = 0 \/ a.expires_at = 0 THEN TRUE
    ELSE a.now >= a.expires_at - ExpiryBuffer

\* a token of the server is stored: _fetch_new_token and the refresh branch set
\* _token_expires_at = time.time() + expires_in, then _token
Store(a, expires_in, has_refresh, n) ==
    [a EXCEPT !.token = a.issued + 1, !.issued = @ + 1,
              !.expires_at = a.now + expires_in,
              !.refresh_token = has_refresh,
              !.contacts = n, !.returned = a.issued + 1, !.raised = FALSE]

\* the call ends with an exception after n contacts with the server; the
\* stored token stays
Raise(a, n) == [a EXCEPT !.contacts = n, !.returned = 0, !.raised = TRUE]

\* get_token, with the results of the server: r1 of the first request (refresh
\* or fetch), r2 of the fetch that follows a refresh refused with OAuth2Error
GetTokenOf(a, r1, r2, expires_in, has_refresh) ==
    IF ~IsTokenExpired(a)
    THEN [a EXCEPT !.contacts = 0, !.returned = a.token, !.raised = FALSE]
    ELSE IF a.token # 0 /\ a.refresh_token
         THEN \* _refresh_token_if_needed
              CASE r1 = "ok" -> Store(a, expires_in, has_refresh, 1)
                [] r1 = "oauth_error" ->
                      IF r2 = "ok" THEN Store(a, expires_in, has_refresh, 2)
                                   ELSE Raise(a, 2)
                [] OTHER -> Raise(a, 1)
         ELSE \* _fetch_new_token
              IF r1 = "ok" THEN Store(a, expires_in, has_refresh, 1) ELSE Raise(a, 1)

ServerResults == {"ok", "oauth_error", "error"}

AuthFrame ==
    UNCHANGED <<node, cfgVars, procVars, sigVars, obsVars, logVars, toolVars, pub, race, conn>>

\* KeyCloakAuthenticator.get_token
GetToken(r1, r2, expires_in, has_refresh) ==
    /\ auth.issued < MaxTokens
    /\ auth' = [GetTokenOf(auth, r1, r2, expires_in, has_refresh) EXCEPT !.op = "token"]
    /\ AuthFrame

\* KeyCloakAuthenticator.get_authorization_header: token = self.get_token()
GetAuthorizationHeader(r1, r2, expires_in, has_refresh) ==
    /\ auth.issued < MaxTokens
    /\ auth' = [GetTokenOf(auth, r1, r2, expires_in, has_refresh) EXCEPT !.op = "header"]
    /\ AuthFrame

\* KeyCloakAuthenticator.revoke_token: the token is cleared whatever the server says
RevokeToken ==
    /\ auth.token # 0
    /\ auth' = [auth EXCEPT !.token = 0, !.expires_at = 0, !.refresh_token = FALSE,
                            !.op = "revoke", !.contacts = 1, !.returned = 0,
                            !.raised = FALSE]
    /\ AuthFrame

\* time.time() goes on between two calls
Tick(d) ==
    /\ auth.now + d <= MaxTime
    /\ auth' = [auth EXCEPT !.now = @ + d]
    /\ AuthFrame

\* a new authenticator; the processor is not involved
AuthInit ==
    /\ node = << >>
    /\ pc = "idle"
    /\ cancel_on_shutdown = TRUE
    /\ datatype_groups = << >>
    /\ ProcInit
    /\ ObsInit
    /\ ToolVarsInit
    /\ pub = NoPublish
    /\ auth = NoAuth
    /\ race = NoRace
    /\ conn = NoConn

AuthNext ==
    \/ \E r1, r2 \in ServerResults, e \in ExpiresIn, h \in BOOLEAN : GetToken(r1, r2, e, h)
    \/ \E r1, r2 \in ServerResults, e \in ExpiresIn, h \in BOOLEAN :
          GetAuthorizationHeader(r1, r2, e, h)
    \/ RevokeToken
    \/ \E d \in Ticks : Tick(d)

AuthSpec == AuthInit /\ [][AuthNext]_vars

\* --------------------------- two orchestrators: _create_tasks side by side
\* _get_existing_tasks of instance i: the listing; a node error becomes
\* ProcessingError and ends the run of the instance
ListExistingOf(i, ok) ==
    /\ race.pc[i] = "list"
    /\ race' = IF ok
               THEN [race EXCEPT !.pc[i] = "create",
                                 !.existing[i] = GetExistingTasks(node)]
               ELSE [race EXCEPT !.pc[i] = "done"]
    /\ UNCHANGED <<node, cfgVars, procVars, sigVars, obsVars, logVars, toolVars, pub,
                   auth, conn>>

\* one iteration of `for datatype_id, _, images in datatype_groups` of instance
\* i, or its `return odm_tasks`; no shutdown is requested in the race
CreateTaskOf(i, ok) ==
    /\ race.pc[i] = "create"
    /\ IF race.idx[i] > Len(datatype_groups)
       THEN /\ race' = [race EXCEPT !.pc[i] = "done"]
            /\ node' = node
       ELSE LET g == datatype_groups[race.idx[i]]
            IN  IF race.existing[i][g] # 0
                THEN /\ race' = [race EXCEPT !.tasks[i] = Append(@, race.existing[i][g]),
                                             !.idx[i] = @ + 1]
                     /\ node' = node
                ELSE IF ok
                THEN /\ node' = Append(node, [name |-> TaskName(g), status |-> "QUEUED"])
                     /\ race' = [race EXCEPT !.tasks[i] = Append(@, Len(node) + 1),
                                             !.idx[i] = @ + 1]
                ELSE /\ race' = [race EXCEPT !.pc[i] = "done"]
                     /\ node' = node
    /\ UNCHANGED <<cfgVars, procVars, sigVars, obsVars, logVars, toolVars, pub, auth,
                   conn>>

\* the node the two instances submit to: empty, or holding the job of the first
\* data-group from an earlier submission
RaceInit ==
    /\ node \in {<< >>} \cup {<<[name |-> TaskName(1), status |-> st]>> : st \in Status}
    /\ pc = "idle"
    /\ cancel_on_shutdown = TRUE
    /\ datatype_groups \in {[i \in 1..n |-> i] : n \in 1..NumGroups}
    /\ ProcInit
    /\ ObsInit
    /\ ToolVarsInit
    /\ pub = NoPublish
    /\ auth = NoAuth
    /\ race = NoRace
    /\ conn = NoConn

RaceNext ==
    \/ \E i \in Instances, ok \in BOOLEAN : ListExistingOf(i, ok)
    \/ \E i \in Instances, ok \in BOOLEAN : CreateTaskOf(i, ok)

RaceSpec == RaceInit /\ [][RaceNext]_vars

\* ----------------------------- notifier.py: the connection of the notifier
\* the broker connections one notifier opens in a behaviour
MaxConnections == 4

\* what connect() meets: everything works, aio_pika.connect_robust raises,
\* connection.channel() raises after the connection was opened, or
\* channel.set_qos raises after the channel was assigned
ConnectOutcomes == {"ok", "connect_fail", "channel_fail", "qos_fail"}

\* connect(): nothing when _is_connected; otherwise a new connection is opened
\* and assigned, then its channel; an exception sets _is_connected = False and
\* is re-raised (raised: the second component)
Connect(c, o) ==
    IF c.is_connected THEN <<c, FALSE>>
    ELSE CASE o = "ok" ->
                <<[c EXCEPT !.connection = c.opened + 1, !.opened = @ + 1,
                            !.open = @ \cup {c.opened + 1}, !.channel = TRUE,
                            !.is_connected = TRUE], FALSE>>
           [] o = "channel_fail" ->
                <<[c EXCEPT !.connection = c.opened + 1, !.opened = @ + 1,
                            !.open = @ \cup {c.opened + 1},
                            !.is_connected = FALSE], TRUE>>
           [] o = "qos_fail" ->
                <<[c EXCEPT !.connection = c.opened + 1, !.opened = @ + 1,
                            !.open = @ \cup {c.opened + 1}, !.channel = TRUE,
                            !.is_connected = FALSE], TRUE>>
           [] OTHER -> <<[c EXCEPT !.is_connected = FALSE], TRUE>>

\* _ensure_connected: connect() unless connected with an open connection
EnsureConnected(c, o) ==
    IF ~c.is_connected \/ c.connection = 0 \/ c.connection \notin c.open
    THEN Connect(c, o)
    ELSE <<c, FALSE>>

\* `self._is_connected = False` of the except block of publish_status_update
Reset(c) == [c EXCEPT !.is_connected = FALSE]

NotifierFrame ==
    UNCHANGED <<node, cfgVars, procVars, sigVars, obsVars, logVars, toolVars, pub, auth,
                race>>

\* __aenter__: await self.connect(); when it raises the context is not entered
\* and __aexit__ is not called
Aenter(o) ==
    /\ conn.ctx = "new"
    /\ LET r == Connect(conn, o)
       IN  conn' = [r[1] EXCEPT !.ctx = IF r[2] THEN "failed" ELSE "entered"]
    /\ NotifierFrame

\* a call of publish_status_update inside the context; with retry_count = 0
\* the loop is empty and the call returns False
PublishCall ==
    /\ conn.ctx = "entered"
    /\ conn.attempt = -1
    /\ conn' = IF conn.retry_count = 0 THEN [conn EXCEPT !.result = "false"]
               ELSE [conn EXCEPT !.attempt = 0, !.result = "none"]
    /\ NotifierFrame

\* one iteration of `for attempt in range(self.cfg.retry_count)`: o is what
\* connect() meets when _ensure_connected calls it, sent is FALSE when the
\* exchange declaration or the publish raises
PublishTry(o, sent) ==
    /\ conn.ctx = "entered"
    /\ conn.attempt >= 0
    /\ EnsureConnected(conn, o)[1].opened <= MaxConnections
    /\ LET r == EnsureConnected(conn, o)
           c == r[1]
           failed == r[2] \/ ~c.channel \/ ~sent
       IN  conn' = IF ~failed THEN [c EXCEPT !.attempt = -1, !.result = "true"]
                   ELSE IF conn.attempt < conn.retry_count - 1
                        THEN [Reset(c) EXCEPT !.attempt = conn.attempt + 1]
                        ELSE [c EXCEPT !.attempt = -1, !.result = "false"]
    /\ NotifierFrame

\* __aexit__: await self.disconnect().  closes: channel.close() and
\* connection.close() work; otherwise one of them raises, which is logged.
Disconnect(c, closes) ==
    IF ~c.is_connected THEN c
    ELSE [c EXCEPT !.open = IF closes THEN @ \ {c.connection} ELSE @,
                   !.connection = 0, !.channel = FALSE, !.is_connected = FALSE]

Aexit(closes) ==
    /\ conn.ctx = "entered"
    /\ conn.attempt = -1
    /\ conn' = [Disconnect(conn, closes) EXCEPT !.ctx = "exited"]
    /\ NotifierFrame

\* a new notifier with its rmq.retry_count; the processor is not involved
NotifierInit ==
    /\ node = << >>
    /\ pc = "idle"
    /\ cancel_on_shutdown = TRUE
    /\ datatype_groups = << >>
    /\ ProcInit
    /\ ObsInit
    /\ ToolVarsInit
    /\ pub = NoPublish
    /\ auth = NoAuth
    /\ race = NoRace
    /\ \E n \in 0..MaxRetryCount : conn = [NoConn EXCEPT !.retry_count = n]

NotifierNext ==
    \/ \E o \in ConnectOutcomes : Aenter(o)
    \/ PublishCall
    \/ \E o \in ConnectOutcomes, sent \in BOOLEAN : PublishTry(o, sent)
    \/ \E closes \in BOOLEAN : Aexit(closes)

NotifierSpec == NotifierInit /\ [][NotifierNext]_vars

Next ==
    \/ \E v \in {"ok", "invalid", "dry_run"} : HandleRequest(v)
    \/ \E ok \in BOOLEAN : CheckNodeAvailability(ok)
    \/ \E ok \in BOOLEAN : LoadRequestMetadata(ok)
    \/ \E ok \in BOOLEAN : NotifierEnter(ok)
    \/ \E ok \in BOOLEAN : ValidateDatatypeGroups(ok)
    \/ \E ok \in BOOLEAN : ListExisting(ok)
    \/ \E ok \in BOOLEAN : CreateTask(ok)
    \/ CreateReturn
    \/ MonitorTop
    \/ \E ok \in BOOLEAN : MonitorTask(ok)
    \/ MonitorSleep
    \/ CancelReturn
    \/ \E fetched, cancelled \in BOOLEAN : CancelTask(fetched, cancelled)
    \/ Handler
    \/ NotifierExit
    \/ Finish
    \/ \E res \in HandoffResults : Handoff(res)
    \/ \E res \in HandoffResults : Transfer(res)
    \/ HandoffReturn
    \/ RequestShutdown
    \/ Shutdown
    \/ \E j \in 1..Len(node), s \in Status : NodeProgress(j, s)

Spec == Init /\ [][Next]_vars

\* a step of the main coroutine of a submitted request (asyncio.run(main()))
Coroutine ==
    \/ \E ok \in BOOLEAN : CheckNodeAvailability(ok)
    \/ \E ok \in BOOLEAN : LoadRequestMetadata(ok)
    \/ \E ok \in BOOLEAN : NotifierEnter(ok)
    \/ \E ok \in BOOLEAN : ValidateDatatypeGroups(ok)
    \/ \E ok \in BOOLEAN : ListExisting(ok)
    \/ \E ok \in BOOLEAN : CreateTask(ok)
    \/ CreateReturn
    \/ MonitorTop
    \/ \E ok \in BOOLEAN : MonitorTask(ok)
    \/ MonitorSleep
    \/ CancelReturn
    \/ \E fetched, cancelled \in BOOLEAN : CancelTask(fetched, cancelled)
    \/ Handler
    \/ NotifierExit
    \/ Finish
    \/ \E res \in HandoffResults : Handoff(res)
    \/ \E res \in HandoffResults : Transfer(res)
    \/ HandoffReturn

\* the main coroutine keeps running until it returns, and the event loop runs a
\* created shutdown() task at the next await of the main coroutine
FairSpec == Spec /\ WF_vars(Coroutine) /\ SF_vars(Shutdown)


\* ------------------------------------------------------------------ claims
TrackedJobs == {odm_tasks[p] : p \in 1..Len(odm_tasks)}

\* C1: a job is created for a data-group iff no job of its dedup name was listed;
\* a listed job is reused; so the node never holds two jobs of one name, also
\* after the request was submitted again.
C1_DedupOnListing ==
    /\ \A a, b \in 1..Len(node) : node[a].name = node[b].name => a = b
    /\ \A p \in 1..Len(odm_tasks) :
          LET g == datatype_groups[p]
              j == odm_tasks[p]
          IN  /\ node[j].name = TaskName(g)
              /\ IF existing_tasks[g] # 0
                 THEN j = existing_tasks[g] /\ j \notin created
                 ELSE j \in created
    /\ \A j \in created : \A g \in Groups :
          node[j].name = TaskName(g) => existing_tasks[g] = 0

\* a resubmission reuses job A while it is RUNNING and creates the absent job B
C1_Witness ==
    /\ Len(odm_tasks) = 2
    /\ odm_tasks[1] \notin created
    /\ node[odm_tasks[1]].status = "RUNNING"
    /\ odm_tasks[2] \in created

\* C2: when monitor_tasks returns with the retry budget not exhausted, every
\* tracked job has been observed in a terminal status.
C2_AllTerminalAtReturn ==
    (pc = "handoff" /\ monitor_exit = "counted") => TrackedJobs \subseteq seen_terminal

\* C3: once a status fetch returned a terminal status for a job, no poll round
\* and no hand-off fetches the status of that job again.
C3_NoFetchAfterTerminal ==
    [][(pc \in {"mon_task", "handoff"} /\ (idx' = idx + 1 \/ pc' = "transfer"))
          => odm_tasks[idx] \notin seen_terminal]_vars

\* C4: when an exception escapes _create_tasks, every job created or reused so
\* far that is still QUEUED or RUNNING got a cancel call before the run ends.
C4_UnwindAfterCreateFailure ==
    (pc = "done" /\ create_raised) =>
        \A j \in active_tasks : IsLive(node[j].status) => cancel_calls[j] > 0

\* C5: a finished unwind has issued a cancel to every tracked job that is QUEUED
\* or RUNNING when cancel_on_shutdown is true, and no cancel when it is false.
C5_UnwindHonoursConfig ==
    (unwound # "none" /\ ~unwind_fetch_failed) =>
        IF cancel_on_shutdown
        THEN \A j \in TrackedJobs : IsLive(node[j].status) => cancel_calls[j] > 0
        ELSE \A j \in 1..Len(node) : cancel_calls[j] = 0

\* C6: after the unwind started by a shutdown seen in monitor_tasks, every tracked
\* job that is QUEUED or RUNNING got a cancel call and no job seen terminal got one.
C6_ExactlyLiveJobsCancelled ==
    (unwound = "monitor" /\ ~unwind_fetch_failed) =>
        \A j \in TrackedJobs :
            /\ IsLive(node[j].status) => cancel_calls[j] > 0
            /\ j \in seen_terminal => cancel_calls[j] = 0

\* C7: while every status fetch raises, monitor_tasks starts at most poll_retries
\* rounds: after that many rounds the budget is used up, which ends the loop.
C7_RetryBudgetBound ==
    all_failed =>
        /\ rounds <= PollRetries
        /\ (pc = "mon_top" /\ rounds >= PollRetries) => total_retries >= PollRetries

\* one tracked job, every fetch raised, poll_retries rounds, monitor_tasks returned
C7_Witness ==
    /\ all_failed
    /\ rounds = PollRetries
    /\ pc = "handoff"
    /\ Len(odm_tasks) = 1

\* C8: the `start` events of a run are as many as the jobs the run created.
C8_OneStartPerCreatedJob == start_events = Cardinality(created)

\* a run that reused one job and created another emitted one `start`
C8_Witness ==
    /\ Len(odm_tasks) = 2
    /\ Cardinality(created) = 1
    /\ start_events = 1

\* C9: a run in which a checkpoint saw the shutdown flag ends with
\* ProcessingCancelled; handle_request returns 0 for success, 2 for
\* cancellation and 1 for every other error.
C9_CancellationOutcome ==
    /\ (flag_seen /\ pc \in {"finish", "done"}) => exc = "ProcessingCancelled"
    /\ pc = "done" =>
          /\ exit_code \in {0, 1, 2}
          /\ exit_code = 0 <=> exc = "none"
          /\ exit_code = 2 <=> exc = "ProcessingCancelled"

\* the flag was seen during hand-off, after one job was handed off; exit code 2
C9_Witness ==
    /\ pc = "done"
    /\ flag_seen
    /\ exit_code = 2
    /\ completed_tasks = 1

\* C10: a first request_shutdown marks the request and schedules one shutdown();
\* a later one only terminates the process with code 1; the flag is set only by
\* the scheduled shutdown() and stays set for the rest of the process; a scheduled
\* shutdown() sets the flag unless the process ends first.
C10_RequestShutdown ==
    /\ [][/\ (~shutdown_requested /\ shutdown_requested') =>
                 shutdown_pending = 0 /\ shutdown_pending' = 1
          /\ shutdown_pending' > shutdown_pending => ~shutdown_requested
          /\ pc \notin {"idle", "done", "exited"} =>
                 /\ shutdown_requested => shutdown_requested'
                 /\ shutdown_event => shutdown_event'
                 /\ (~shutdown_event /\ shutdown_event') =>
                        shutdown_requested /\ shutdown_pending > 0
          /\ (pc # "exited" /\ pc' = "exited") =>
                 /\ shutdown_requested
                 /\ exit_code' = 1
                 /\ UNCHANGED <<shutdown_pending, shutdown_event>>
         ]_vars
    /\ ((shutdown_pending > 0) ~> (shutdown_event \/ pc \notin Running))

\* both calls happened: the flag was set after the first, the second terminated
C10_Witness ==
    /\ pc = "exited"
    /\ exit_code = 1
    /\ shutdown_event
    /\ shutdown_pending = 0

\* the closing events (`end`, `error`) of a job's log, in order
Closings(log) == SelectSeq(log, LAMBDA e : e \in {"end", "error"})

\* C11: a failure of the notification sink does not abort the submission: the
\* step in which its connection cannot be established raises nothing and the
\* run goes on to validate the data-groups.
C11_SinkFailureNeverAborts ==
    [][(~connect_failed /\ connect_failed') => (exc' = "none" /\ pc' = "validate")]_vars

\* C12: a request with two data-groups on a node without jobs, no shutdown, no
\* exhausted budget, no job failing or cancelled and no hand-off step failing:
\* the run creates 2 jobs, sends 2 `start`, returns from polling only when both
\* are seen COMPLETED, hands both off, sends 2 `end` and returns (2, 0).
C12_TwoGroupScenario ==
    ( /\ pc = "done"
      /\ exc = "none"
      /\ Len(datatype_groups) = 2
      /\ Cardinality(created) = 2
      /\ monitor_exit = "counted"
      /\ \A j \in TrackedJobs :
            /\ node[j].status \notin {"FAILED", "CANCELED"}
            /\ handoff_log[j].seen # "unknown"
            /\ handoff_log[j].step \in {"ok", "none"} )
    => /\ start_events = 2
       /\ TrackedJobs \subseteq seen_terminal
       /\ \A j \in TrackedJobs : events[j] = <<"start", "end">>
       /\ completed_tasks = 2
       /\ failed_tasks = 0

\* C13: a tracked job that is COMPLETED at hand-off gets exactly one closing
\* event and one tally: `end` and completed when download and upload work,
\* `error` and failed when a hand-off step fails.
C13_OneClosingPerCompletedJob ==
    \A j \in TrackedJobs :
        handoff_log[j].seen = "COMPLETED" =>
            IF handoff_log[j].step = "ok"
            THEN Closings(events[j]) = <<"end">> /\ handoff_log[j].tally = "completed"
            ELSE Closings(events[j]) = <<"error">> /\ handoff_log[j].tally = "failed"

\* C14: a failing hand-off of one job does not stop process_completed_tasks:
\* while it runs no exception is in flight and exactly the jobs before the
\* loop index were handled; when it has returned every tracked job was
\* handled, every COMPLETED one went into _process_results and every FAILED
\* one got its `error` event.
C14_HandoffIsolation ==
    /\ pc = "handoff" =>
          /\ exc = "none"
          /\ \A p \in 1..Len(odm_tasks) :
                (p < idx) <=> handoff_log[odm_tasks[p]].seen # "none"
    /\ (pc \in {"aexit", "done"} /\ exc = "none" /\ monitor_exit # "none") =>
          \A j \in TrackedJobs :
              /\ handoff_log[j].seen # "none"
              /\ handoff_log[j].seen = "COMPLETED" => handoff_log[j].step # "none"
              /\ handoff_log[j].seen = "FAILED" => Closings(events[j]) = <<"error">>

\* the hand-off of the first job failed in the download, the second was uploaded
C14_Witness ==
    /\ pc = "done"
    /\ Len(odm_tasks) = 2
    /\ handoff_log[odm_tasks[1]].step = "raised"
    /\ handoff_log[odm_tasks[2]].step = "ok"
    /\ completed_tasks = 1
    /\ failed_tasks = 1

\* C15: per job the events are sent in causal order: `start` only as the first
\* event of a job created by this run, an `update` only while no closing event
\* was sent for the job, and each event fits the status just observed (an
\* `update` a QUEUED or RUNNING job, an `end` a COMPLETED or CANCELED one, an
\* `error` a COMPLETED or FAILED one).
C15_EventOrder ==
    /\ [](\A j \in 1..Len(events) : \A p \in 1..Len(events[j]) :
              events[j][p] = "start" => (p = 1 /\ j \in created))
    /\ [][(last_event' # last_event /\ last_event' # << >>) =>
            LET j == last_event'[1]
                k == last_event'[2]
            IN  /\ k = "start" => j = Len(node) + 1
                /\ k = "update" =>
                      /\ Closings(events[j]) = << >>
                      /\ j \in created => events[j] = <<"start">>
                      /\ IsLive(node[j].status)
                /\ k = "end" => node'[j].status \in {"COMPLETED", "CANCELED"}
                /\ k = "error" => node[j].status \in {"COMPLETED", "FAILED"}
         ]_vars

\* a run that reuses two jobs of the node sent the `end` of the first, a
\* CANCELED job, and sends as latest event an `update` of the second, RUNNING
C15_Witness ==
    /\ Len(events) = 2
    /\ events[1] = <<"end">>
    /\ last_event = <<2, "update">>
    /\ node[2].status = "RUNNING"

\* C16: a run whose poll loop ended on the exhausted retry budget with a tracked
\* job still QUEUED or RUNNING and not tallied does not return exit code 0.
C16_BudgetExitNotSuccess ==
    ( /\ pc = "done"
      /\ monitor_exit = "budget"
      /\ \E j \in TrackedJobs : IsLive(node[j].status) /\ handoff_log[j].tally = "none" )
    => exit_code # 0

\* C17: the step that ends the poll loop on the exhausted budget returns to the
\* hand-off with no exception, leaves the node as it is and issues no cancel.
C17_FailOpenExit ==
    /\ [][(monitor_exit = "none" /\ monitor_exit' \in {"budget", "both"}) =>
             /\ pc' = "handoff"
             /\ exc' = "none"
             /\ node' = node
             /\ cancel_calls' = cancel_calls]_vars
    /\ []((pc = "handoff" /\ monitor_exit \in {"budget", "both"}) =>
             \A j \in 1..Len(node) : cancel_calls[j] = 0)

\* monitor_tasks returned on the budget and left a tracked job RUNNING
C17_Witness ==
    /\ pc = "handoff"
    /\ monitor_exit = "budget"
    /\ \E j \in TrackedJobs : node[j].status = "RUNNING"

\* C18: a tracked job that is FAILED at hand-off has exactly one closing event,
\* an `error`, is tallied failed once (the failed counter is the number of
\* jobs tallied failed) and got no cancel call; a poll that sees FAILED sends
\* nothing.
C18_FailedJobAtHandoff ==
    /\ [](\A j \in TrackedJobs :
             handoff_log[j].seen = "FAILED" =>
                 /\ Closings(events[j]) = <<"error">>
                 /\ handoff_log[j].tally = "failed"
                 /\ cancel_calls[j] = 0)
    /\ [](failed_tasks = Cardinality({j \in TrackedJobs : handoff_log[j].tally = "failed"}))
    /\ [][(pc = "mon_task" /\ idx' = idx + 1 /\ node[odm_tasks[idx]].status = "FAILED")
             => UNCHANGED <<events, last_event>>]_vars

\* a created job failed on the node: one `error` after its `start`, failed = 1
C18_Witness ==
    /\ pc = "done"
    /\ failed_tasks = 1
    /\ \E j \in TrackedJobs :
          /\ handoff_log[j].seen = "FAILED"
          /\ j \in seen_terminal
          /\ events[j] = <<"start", "error">>

\* C19: when the listing of the node's jobs fails, the run ends with a
\* ProcessingError and has created, registered, notified and cancelled nothing.
C19_ListFailureAborts ==
    list_failed =>
        /\ exc = "ProcessingError"
        /\ pc \in {"handler", "aexit", "done"}
        /\ idx = 0
        /\ created = {}
        /\ odm_tasks = << >>
        /\ active_tasks = {}
        /\ start_events = 0
        /\ last_event = << >>
        /\ \A j \in 1..Len(node) : cancel_calls[j] = 0

\* the listing failed on a node that holds a job of the request; exit code 1
C19_Witness ==
    /\ list_failed
    /\ pc = "done"
    /\ exit_code = 1
    /\ Len(node) > 0

\* C20: clear_tasks with dry_run=true applies the filters, calls remove on no job
\* of the node and returns an empty list (the node keeps every job); and neither
\* list_tasks nor clear_tasks, in any mode, changes the task registry.
C20_DryRunAndRegistryFrame ==
    [][/\ active_tasks' = active_tasks
       /\ (tool_call'.op = "clear" /\ tool_call'.dry_run)
            => (removed' = {} /\ remove_calls' = {} /\ node' = node)]_vars

\* a dry run of clear_tasks, by a service with a job in its registry, whose
\* filters selected a job: nothing was removed
C20_Witness ==
    /\ tool_call.op = "clear"
    /\ tool_call.dry_run
    /\ tool_call.request # << >>
    /\ tool_call.statuses # << >>
    /\ tool_call.matched # {}
    /\ tool_call.matched # {j \in 1..Len(node) : TRUE}
    /\ active_tasks # {}
    /\ removed = {}
    /\ exit_code = 0

\* the jobs of the node a command with the arguments req and st is about: not
\* removed, of a status in st, and named after a data-group of the request req
WantedJobs(jobs, req, st) ==
    {j \in 1..Len(jobs) :
        /\ IsListed(jobs[j])
        /\ StatusPasses(st, jobs[j].status)
        /\ req = << >> \/ \E g \in Groups : jobs[j].name = TaskNameOf(req, g)}

\* C21: clear_tasks without dry_run calls remove on exactly the jobs of the node
\* whose status is in the status set and whose name is that of a data-group of
\* the request, whatever the request id, and returns exactly the ids of the jobs
\* the node removed; list_tasks with the same arguments selects the same jobs.
C21_ClearSelectsExactly ==
    [][/\ (tool_call'.op = "clear" /\ ~tool_call'.dry_run /\ exit_code' = 0) =>
            /\ remove_calls' = WantedJobs(node, tool_call'.request, tool_call'.statuses)
            /\ removed' = {j \in remove_calls' : node'[j].status = "REMOVED"}
       /\ (tool_call'.op = "list" /\ exit_code' = 0) =>
            listed' = WantedJobs(node, tool_call'.request, tool_call'.statuses)
      ]_vars

\* the run has listed, created, registered and cancelled no job and sent no event
NothingDone ==
    /\ existing_tasks = [g \in Groups |-> 0]
    /\ ~list_failed
    /\ created = {}
    /\ odm_tasks = << >>
    /\ active_tasks = {}
    /\ start_events = 0
    /\ last_event = << >>
    /\ \A j \in 1..Len(events) : events[j] = << >>
    /\ \A j \in 1..Len(cancel_calls) : cancel_calls[j] = 0

\* C22: a validation error (the request directory or request.json is invalid)
\* makes handle_request return 1 in the step that finds it, with the node as it
\* was and no job listed, created or cancelled and no event sent; the same holds
\* when the processor's own reading of request.json fails.
C22_ValidationFailsFast ==
    /\ [][exc' = "ValueError" =>
             (pc' = "done" /\ exit_code' = 1 /\ node' = node /\ NothingDone')]_vars
    /\ [][(pc = "load" /\ pc' = "finish") => (node' = node /\ NothingDone')]_vars
    /\ [][(pc = "finish" /\ pc' = "done") => (exit_code' = 1 /\ NothingDone')]_vars

\* an invalid request was refused with exit code 1 on a node that holds the jobs
\* of an earlier run, one of them still at work
C22_Witness ==
    /\ pc = "done"
    /\ exc = "ValueError"
    /\ exit_code = 1
    /\ \E j \in 1..Len(node) : IsLive(node[j].status)
    /\ NothingDone

\* the attempts of the call that failed
FailedTries == SelectSeq(pub.tries, LAMBDA o : o # "ok")

C24_TokenCaching ==
    [][(auth'.op \in {"token", "header"} /\ auth'.now = auth.now) =>
          /\ (auth.token # 0 /\ auth.now < auth.expires_at - 30) =>
                /\ auth'.returned = auth.token
                /\ auth'.token = auth.token
                /\ auth'.expires_at = auth.expires_at
                /\ auth'.contacts = 0
                /\ ~auth'.raised
          /\ auth'.contacts > 0 =>
                (auth.token = 0 \/ auth.now >= auth.expires_at - 30)
          /\ ~auth'.raised =>
                /\ auth'.token # 0
                /\ auth'.returned = auth'.token
                /\ auth'.expires_at > auth'.now
      ]_vars

\* 15 seconds after the first token was fetched with expires_in = 60 a call
\* returned it from the cache
C24_Witness ==
    /\ auth.op \in {"token", "header"}
    /\ auth.issued = 1
    /\ auth.returned = 1
    /\ auth.contacts = 0
    /\ auth.now = 15
    /\ auth.expires_at = 60

\* C25: no job is created and no status is fetched by the poll loop in a state
\* where the shutdown flag is set: the flag is tested before each creation, at
\* the top of each round and before each job of a round, and a sleep between
\* rounds that finds the flag set ends the monitoring instead of the round.
C25_ShutdownCheckpoints ==
    [][/\ Len(node') > Len(node) => ~shutdown_event
       /\ (pc = "mon_top" /\ pc' = "mon_task") => ~shutdown_event
       /\ (pc = "mon_task" /\ idx' = idx + 1) => ~shutdown_event
       /\ (pc = "mon_sleep" /\ pc' = "mon_top") => ~shutdown_event
       /\ (shutdown_event /\ pc \in {"mon_task", "mon_sleep"} /\ pc' # pc) =>
              (exc' = "ProcessingCancelled" \/ pc' = "exited")
       /\ (shutdown_event /\ pc = "create" /\ idx <= Len(datatype_groups) /\ pc' # pc) =>
              (exc' = "ProcessingCancelled" \/ pc' = "exited")
      ]_vars

\* the flag was set after the first of two jobs was created: the test before the
\* second creation ended the run, one job exists
C25_Witness ==
    /\ shutdown_event
    /\ flag_seen
    /\ create_raised
    /\ exc = "ProcessingCancelled"
    /\ Len(datatype_groups) = 2
    /\ Cardinality(created) = 1
    /\ Len(node) = 1

\* monitor_tasks is running
Monitoring == pc \in {"mon_top", "mon_task", "mon_sleep"}

\* C26: once the shutdown flag is set while monitor_tasks runs, the run ends with
\* ProcessingCancelled (exit code 2), also when the jobs stay QUEUED or RUNNING
\* and no fetch fails, and not with success: the only other end is the forced exit
\* of a second signal.
C26_ShutdownEndsMonitoring ==
    /\ (shutdown_event /\ Monitoring)
          ~> ((pc = "done" /\ exc = "ProcessingCancelled" /\ exit_code = 2)
               \/ pc = "exited")
    /\ [][(shutdown_event /\ (Monitoring \/ (pc = "handoff" /\ idx = 1))
            /\ ~(Monitoring' \/ (pc' = "handoff" /\ idx' = 1)))
           => (exc' = "ProcessingCancelled" \/ pc' = "exited")]_vars
    /\ [][(exc = "ProcessingCancelled" /\ pc \in Running)
           => (exc' = "ProcessingCancelled" \/ pc' = "exited")]_vars
    /\ []((pc = "done" /\ exc = "ProcessingCancelled") => exit_code = 2)

\* the run was cancelled out of monitor_tasks after a fetch that worked, and its
\* job is still RUNNING on the node
C26_Witness ==
    /\ pc = "done"
    /\ exc = "ProcessingCancelled"
    /\ exit_code = 2
    /\ tasks_bound
    /\ monitor_exit = "none"
    /\ ~all_failed
    /\ \E j \in TrackedJobs : node[j].status = "RUNNING"

\* C27: a status fetch that fails in a poll round adds exactly 1 to the retry
\* budget, neither counts the job nor marks it terminal, sends no event, and
\* the round goes on with the next job (or, after the last job, with the sleep);
\* nothing else spends the budget.
C27_FetchFailureInRound ==
    /\ [][(pc = "mon_task" /\ pc' \in {"mon_task", "mon_sleep"}
            /\ total_retries' # total_retries) =>
              /\ total_retries' = total_retries + 1
              /\ completed_count' = completed_count
              /\ seen_terminal' = seen_terminal
              /\ events' = events
              /\ last_event' = last_event
              /\ idx' = idx + 1
              /\ pc' = IF idx < Len(odm_tasks) THEN "mon_task" ELSE "mon_sleep"
              /\ node' = node]_vars
    /\ [][total_retries' > total_retries => pc = "mon_task"]_vars

\* in a round over two jobs the fetch of the first, COMPLETED on the node,
\* failed: it is not counted, no event was sent for it, the second is next
C27_Witness ==
    /\ pc = "mon_task"
    /\ Len(odm_tasks) = 2
    /\ idx = 2
    /\ total_retries = 1
    /\ completed_count = 0
    /\ node[odm_tasks[1]].status = "COMPLETED"
    /\ odm_tasks[1] \notin seen_terminal
    /\ Closings(events[odm_tasks[1]]) = << >>

\* C28: a status fetch of a poll round that returns sends exactly the event of
\* the status it saw: RUNNING an `update` (the job is not counted), COMPLETED
\* and FAILED nothing (the job is counted), CANCELED an `end` (the job is
\* counted), any other status an `update`.
C28_PollEventPerStatus ==
    [][(pc = "mon_task" /\ pc' \in {"mon_task", "mon_sleep"} /\ idx' = idx + 1
        /\ total_retries' = total_retries) =>
          LET j == odm_tasks[idx]
              s == node[j].status
          IN  /\ s \in {"RUNNING", "QUEUED"} =>
                    /\ last_event' = <<j, "update">>
                    /\ events' = events
                    /\ completed_count' = completed_count
                    /\ seen_terminal' = seen_terminal
              /\ s \in {"COMPLETED", "FAILED"} =>
                    /\ last_event' = last_event
                    /\ events' = events
                    /\ completed_count' = completed_count + 1
              /\ s = "CANCELED" =>
                    /\ last_event' = <<j, "end">>
                    /\ events' = [events EXCEPT ![j] = Append(@, "end")]
                    /\ completed_count' = completed_count + 1
      ]_vars

\* a poll round saw a reused job CANCELED and sent its `end`, then saw a job
\* QUEUED and sent an `update`
C28_Witness ==
    /\ pc = "mon_sleep"
    /\ Len(odm_tasks) = 2
    /\ node[odm_tasks[1]].status = "CANCELED"
    /\ events[odm_tasks[1]] = <<"end">>
    /\ node[odm_tasks[2]].status = "QUEUED"
    /\ last_event = <<odm_tasks[2], "update">>
    /\ completed_count = 1

\* C29: an iteration of the unwind sends an `end` for its job exactly when it
\* issued a cancel for the job and the node cancelled it; it sends nothing for a
\* job that is terminal, whose status fetch or cancel failed; and no event is
\* sent by an unwind when the configuration says to let the jobs run
\* (cancel_on_shutdown false).
C29_EndOnlyForCancelled ==
    [][(pc = "cancel" /\ pc' = "cancel" /\ idx' = idx + 1) =>
          LET j == odm_tasks[idx]
              sent == events'[j] = Append(events[j], "end") /\ last_event' = <<j, "end">>
              cancelled == /\ cancel_calls'[j] = cancel_calls[j] + 1
                           /\ IsLive(node[j].status)
                           /\ node'[j].status = "CANCELED"
          IN  /\ sent <=> cancelled
              /\ ~sent => (events' = events /\ last_event' = last_event)
              /\ sent => cancel_on_shutdown
      ]_vars

\* C30: _cancel_odm_tasks never raises and goes through its whole list: each
\* iteration, whatever fails in it, touches only its own job, keeps the
\* exception in flight and is followed by the next job; the unwind returns to
\* its caller only from the end of the list (or at once when the jobs are let
\* run), and the exception that started it is the one handle_request gets.
C30_UnwindBestEffort ==
    /\ [][(pc = "cancel" /\ pc' = "cancel" /\ idx' # idx) =>
             /\ idx' = idx + 1
             /\ idx <= Len(odm_tasks)
             /\ exc' = exc
             /\ \A k \in 1..Len(node) :
                    k # odm_tasks[idx] =>
                       (node'[k] = node[k] /\ cancel_calls'[k] = cancel_calls[k]
                          /\ events'[k] = events[k])]_vars
    /\ [][(pc = "cancel" /\ pc' \notin {"cancel", "exited"}) =>
             /\ pc' = unwind_ret
             /\ exc' = exc
             /\ LetTasksRun \/ idx = Len(odm_tasks) + 1]_vars
    /\ [][(pc \in {"handler", "cancel", "aexit"} /\ pc' # "exited") => exc' = exc]_vars
    /\ []((pc \in {"handler", "cancel"}) => exc # "none")

\* the unwind of a cancelled run could not fetch its first job and cancelled the
\* second; the run ended with ProcessingCancelled
C30_Witness ==
    /\ pc = "done"
    /\ exc = "ProcessingCancelled"
    /\ exit_code = 2
    /\ unwind_fetch_failed
    /\ Len(odm_tasks) = 2
    /\ cancel_calls[odm_tasks[1]] = 0
    /\ IsLive(node[odm_tasks[1]].status)
    /\ cancel_calls[odm_tasks[2]] > 0
    /\ node[odm_tasks[2]].status = "CANCELED"

\* the jobs of the node that carry the dedup name of data-group g
NamedJobs(g) == {j \in 1..Len(node) : node[j].name = TaskName(g)}

\* C31: an iteration of _create_tasks for a data-group whose dedup name is
\* carried by a job of the node, whatever the status of that job, creates no
\* job and sends no `start`: it appends that job to the task list and registers
\* it in active_tasks.
C31_DedupIgnoresStatus ==
    [][(pc = "create" /\ idx' = idx + 1 /\ NamedJobs(datatype_groups[idx]) # {}) =>
          /\ node' = node
          /\ created' = created
          /\ start_events' = start_events
          /\ events' = events
          /\ \E j \in NamedJobs(datatype_groups[idx]) :
                /\ odm_tasks' = Append(odm_tasks, j)
                /\ j \in active_tasks'
      ]_vars

\* a resubmission registered a job that was CANCELED before the run began (the
\* run itself sent no cancel) and sent nothing for it
C31_Witness ==
    /\ pc = "create"
    /\ Len(odm_tasks) = 1
    /\ node[odm_tasks[1]].status = "CANCELED"
    /\ cancel_calls[odm_tasks[1]] = 0
    /\ odm_tasks[1] \notin created
    /\ odm_tasks[1] \in active_tasks
    /\ events[odm_tasks[1]] = << >>

\* C34: while monitor_tasks runs, completed_count is at most the number of
\* tracked jobs and equals the number of distinct tracked jobs whose status
\* fetch returned a terminal status: a job is counted at most once.
C34_CountedOnce ==
    Monitoring =>
        /\ completed_count <= Len(odm_tasks)
        /\ completed_count = Cardinality(seen_terminal)

\* C35: within one submission a job of the node receives at most one cancel
\* call, also when the unwind runs in monitor_tasks and again in the handler of
\* process_request_with_options, and when the job is still QUEUED or RUNNING
\* after a cancel.
C35_AtMostOneCancel ==
    \A j \in DOMAIN cancel_calls : cancel_calls[j] <= 1

\* C36: within one submission a job gets at most one closing event (`end` or
\* `error`), and no event follows the closing event of a job.
C36_OneClosingEvent ==
    \A j \in DOMAIN events :
        /\ Len(Closings(events[j])) <= 1
        /\ \A k \in 1..Len(events[j]) :
              events[j][k] \in {"end", "error"} => k = Len(events[j])

\* C38: the poll loop issues a status fetch only while total_retries is below
\* poll_retries, for every job of a round, so the retries of one monitor_tasks
\* run never exceed poll_retries.
C38_NoFetchOnSpentBudget ==
    [][(pc = "mon_task" /\ idx' = idx + 1) =>
          (total_retries < PollRetries /\ total_retries' <= PollRetries)]_vars

Tallied(t) == {j \in TrackedJobs : handoff_log[j].tally = t}

\* C37: the two totals of process_completed_tasks count distinct tracked jobs,
\* each in at most one total, so their sum is at most the number of tracked
\* jobs; a job is in the completed total only if it was fetched COMPLETED and
\* its upload worked; a job fetched CANCELED, QUEUED or RUNNING is in neither.
C37_TallyCountsOnce ==
    /\ completed_tasks = Cardinality(Tallied("completed"))
    /\ failed_tasks = Cardinality(Tallied("failed"))
    /\ completed_tasks + failed_tasks <= Len(odm_tasks)
    /\ \A j \in TrackedJobs :
          /\ handoff_log[j].tally = "completed" =>
                (handoff_log[j].seen = "COMPLETED" /\ handoff_log[j].step = "ok")
          /\ handoff_log[j].seen \in {"CANCELED", "QUEUED", "RUNNING"} =>
                handoff_log[j].tally = "none"

\* a hand-off returned (1, 0) for two tracked jobs: one was fetched CANCELED and
\* is in neither total, the other was uploaded
C37_Witness ==
    /\ pc = "done"
    /\ exc = "none"
    /\ Len(odm_tasks) = 2
    /\ handoff_log[odm_tasks[1]].seen = "CANCELED"
    /\ handoff_log[odm_tasks[2]].step = "ok"
    /\ completed_tasks = 1
    /\ failed_tasks = 0

\* every tracked job is in a terminal status on the node
AllTrackedTerminal == \A j \in TrackedJobs : IsTerminal(node[j].status)

\* C32: when no shutdown is requested, a monitor_tasks whose tracked jobs have
\* all reached a terminal status on the node returns, and the hand-off that
\* follows its return visits every job and returns, so that
\* process_request_with_options returns without an exception.
C32_NormalTermination ==
    /\ (Monitoring /\ AllTrackedTerminal) ~> (pc = "handoff" \/ shutdown_requested)
    /\ (pc = "handoff")
          ~> ((pc = "done" /\ exc = "none" /\ exit_code = 0) \/ shutdown_requested)

\* a run without shutdown and with the budget not used up: both jobs were seen
\* terminal, monitor_tasks returned on the count, the hand-off returned
C32_Witness ==
    /\ pc = "done"
    /\ exc = "none"
    /\ ~shutdown_requested
    /\ Len(odm_tasks) = 2
    /\ monitor_exit = "counted"
    /\ TrackedJobs \subseteq seen_terminal
    /\ \A j \in TrackedJobs : handoff_log[j].seen # "none"

\* C39: when two orchestrators run _create_tasks for the same request side by
\* side, the node never holds two jobs of one name.
C39_UniqueNamesUnderRace ==
    \A a, b \in 1..Len(node) : node[a].name = node[b].name => a = b

\* C40: a notifier holds at most one open broker connection at any time, and
\* none of the connections it opened is open after its context has exited.
C40_ConnectionLifecycle ==
    /\ Cardinality(conn.open) <= 1
    /\ conn.ctx = "exited" => conn.open = {}

====
